---- MODULE Spec2Model ----
(***************************************************************************)
(* Cost-calculation engine of EstimateCore (src/utils.ts): parseConfig,    *)
(* calculateItemCost, calculateLaborCost and the values they work on, and  *)
(* the totals App (src/App.tsx) derives from the current project.          *)
(*                                                                         *)
(* A JavaScript string is a sequence of one-character strings.  An object  *)
(* is a function whose DOMAIN is the set of its own properties, so a       *)
(* missing property is a key outside the DOMAIN.  A call either returns a  *)
(* value or throws; both outcomes are values of the model.                 *)
(***************************************************************************)
EXTENDS Integers, Sequences, FiniteSets, TLC

VARIABLES call, result, currentProject, localStorage, supabaseInstance, now,
          \* the state of App that holds the list of projects
          projects, currentProjectId, isLoading, isDirty, isSyncing,
          isEstimatingAll, isBatchEstimating, estimatingIds,
          \* the handlers of App waiting at an await, each with the values
          \* of the render it was started from
          inflight,
          \* the number of clients createClient has made
          created,
          \* for each project id, the version last handed to
          \* saveProjectToCloud and not deleted since
          passed

\* the state App keeps for its list of projects
listVars == <<projects, currentProjectId, isLoading, isDirty, isSyncing,
              isEstimatingAll, isBatchEstimating, estimatingIds, inflight,
              created, passed>>

vars == <<call, result, currentProject, localStorage, supabaseInstance, now,
          listVars>>

\* the state of App and the state utils.ts keeps outside its functions
appVars == <<currentProject, localStorage, supabaseInstance, now, listVars>>

(***************************************************************************)
(* Bounds of the explored inputs.                                          *)
(***************************************************************************)
MaxTokens == 4
MaxQuantity == 2
MaxBw == 1
MaxAbsent == 2
MaxMandays == 3
MaxLabors == 2
MaxServers == 1
MaxClock == 4

(***************************************************************************)
(* JavaScript values.                                                      *)
(***************************************************************************)
\* the value of a missing property, where a string is expected
Undefined == <<"undefined">>

Return(v) == [kind |-> "return", value |-> v]

Throw(e) == [kind |-> "throw", error |-> e]

NoResult == [kind |-> "none"]

\* obj.k, for a property holding a string
Prop(obj, k) == IF k \in DOMAIN obj THEN obj[k] ELSE Undefined

\* (obj.k || 1) written where (obj.k || 0) is meant
OrOneForZero(obj, k) == IF k \in DOMAIN obj /\ obj[k] # 0 THEN obj[k] ELSE 1

\* (obj.k || 0), for a property holding a number: undefined and 0 are falsy
OrZero(obj, k) == IF k \in DOMAIN obj /\ obj[k] # 0 THEN obj[k] ELSE 0

(***************************************************************************)
(* Characters and the string methods the code uses.                        *)
(***************************************************************************)
Digit == {"0", "1", "2", "3", "4", "5", "6", "7", "8", "9"}

DigitValue == "0" :> 0 @@ "1" :> 1 @@ "2" :> 2 @@ "3" :> 3 @@ "4" :> 4 @@
              "5" :> 5 @@ "6" :> 6 @@ "7" :> 7 @@ "8" :> 8 @@ "9" :> 9

\* the characters \s matches, among those of the explored texts
WhiteSpace == {" ", "\t"}

LowerOf == "A" :> "a" @@ "B" :> "b" @@ "C" :> "c" @@ "D" :> "d" @@ "E" :> "e" @@
           "F" :> "f" @@ "G" :> "g" @@ "H" :> "h" @@ "I" :> "i" @@ "J" :> "j" @@
           "K" :> "k" @@ "L" :> "l" @@ "M" :> "m" @@ "N" :> "n" @@ "O" :> "o" @@
           "P" :> "p" @@ "Q" :> "q" @@ "R" :> "r" @@ "S" :> "s" @@ "T" :> "t" @@
           "U" :> "u" @@ "V" :> "v" @@ "W" :> "w" @@ "X" :> "x" @@ "Y" :> "y" @@
           "Z" :> "z"

LowerChar(c) == IF c \in DOMAIN LowerOf THEN LowerOf[c] ELSE c

\* String.prototype.toLowerCase
toLowerCase(s) == [i \in 1..Len(s) |-> LowerChar(s[i])]

\* s.substring(from - 1): the characters of s from position from (1-based) on
Suffix(s, from) == SubSeq(s, from, Len(s))

\* does lit occur in s at position k (1-based), compared exactly
At(s, k, lit) ==
    /\ k >= 1
    /\ k + Len(lit) - 1 <= Len(s)
    /\ \A m \in 1..Len(lit) : s[k + m - 1] = lit[m]

\* the least member of a non-empty set of positions
Least(ps) == CHOOSE p \in ps : \A q \in ps : p <= q

\* String.prototype.indexOf, 1-based; 0 when lit does not occur
indexOf(s, lit) ==
    LET hits == {k \in 1..Len(s) : At(s, k, lit)} IN
    IF hits = {} THEN 0 ELSE Least(hits)

\* String.prototype.includes
includes(s, lit) == indexOf(s, lit) # 0

\* s.split(sep)[1]: the text between the first and the second occurrence of
\* sep; Undefined when sep does not occur (split returns the one-element [s])
splitSecond(s, sep) ==
    LET first == indexOf(s, sep) IN
    IF first = 0 THEN Undefined
    ELSE LET rest == Suffix(s, first + Len(sep))
             next == indexOf(rest, sep)
         IN  IF next = 0 THEN rest ELSE SubSeq(rest, 1, next - 1)

\* parseInt(s) for a string that starts with a digit: the value of its
\* longest prefix of digits (every call site passes text matched by \d+...)
RECURSIVE ParseDigits(_, _, _)
ParseDigits(s, k, acc) ==
    IF k <= Len(s) /\ s[k] \in Digit
    THEN ParseDigits(s, k + 1, acc * 10 + DigitValue[s[k]])
    ELSE acc

parseInt(s) == ParseDigits(s, 1, 0)

(***************************************************************************)
(* Regular expressions of the shape  (\d+)\s*(a1|a2|...)tail  with the i   *)
(* flag, where tail is empty or \s*word.  exec tries every start position  *)
(* from the left.  At a position the matcher takes the first success in    *)
(* its backtracking order: \d+ and \s* are greedy and give characters back *)
(* one at a time, and the alternatives are tried in the order written.     *)
(***************************************************************************)
\* does lit (written in lower case) occur in s at k, ignoring letter case
AtIgnoreCase(s, k, lit) ==
    /\ k + Len(lit) - 1 <= Len(s)
    /\ \A m \in 1..Len(lit) : LowerChar(s[k + m - 1]) = lit[m]

\* number of consecutive characters of class cls in s from position k
RunLength(s, k, cls) ==
    CHOOSE n \in 0..(Len(s) + 1 - k) :
        /\ \A j \in k..(k + n - 1) : s[j] \in cls
        /\ k + n <= Len(s) => s[k + n] \notin cls

\* the ways  tail  matches at k: the numbers of blanks taken by its \s*
TailChoices(s, k, word) ==
    IF word = <<>> THEN {0}
    ELSE {w \in 0..RunLength(s, k, WhiteSpace) : AtIgnoreCase(s, k + w, word)}

\* the ways the pattern matches at start position i: d digits, w blanks,
\* alternative a, t blanks inside tail
MatchChoices(s, i, alts, word) ==
    UNION {UNION {UNION {
        {[d |-> d, w |-> w, a |-> a, t |-> t] :
            t \in IF AtIgnoreCase(s, i + d + w, alts[a])
                  THEN TailChoices(s, i + d + w + Len(alts[a]), word)
                  ELSE {}} :
        a \in 1..Len(alts)} :
        w \in 0..RunLength(s, i + d, WhiteSpace)} :
        d \in 1..RunLength(s, i, Digit)}

\* backtracking order: more digits first, then more blanks, then the earlier
\* alternative, then more blanks inside tail
TriedBefore(c, o) ==
    \/ c.d > o.d
    \/ c.d = o.d /\ c.w > o.w
    \/ c.d = o.d /\ c.w = o.w /\ c.a < o.a
    \/ c.d = o.d /\ c.w = o.w /\ c.a = o.a /\ c.t >= o.t

\* the match the matcher reports at start position i (there is one)
MatchAt(s, i, alts, word) ==
    LET cs == MatchChoices(s, i, alts, word)
        c == CHOOSE c \in cs : \A o \in cs : TriedBefore(c, o)
    IN  [index |-> i,
         whole |-> SubSeq(s, i, i + c.d + c.w + Len(alts[c.a])
                                 + (IF word = <<>> THEN 0 ELSE c.t + Len(word))
                                 - 1),
         group1 |-> SubSeq(s, i, i + c.d - 1)]

\* RegExp exec from position from: <<>> for null, else <<m>> with the record
\* m of the leftmost match: index, m[0] and m[1]
ExecFrom(s, from, alts, word) ==
    LET starts == {i \in from..Len(s) :
                      s[i] \in Digit /\ MatchChoices(s, i, alts, word) # {}}
    IN  IF starts = {} THEN <<>>
        ELSE <<MatchAt(s, Least(starts), alts, word)>>

\* s.match(re) without the g flag: <<>> for null, else <<match record>>
match(s, alts, word) == ExecFrom(s, 1, alts, word)

\* s.match(re) with the g flag: the sequence of the matched texts, each
\* search starting where the previous match ended; <<>> stands for null
RECURSIVE MatchAllFrom(_, _, _, _)
MatchAllFrom(s, from, alts, word) ==
    LET m == ExecFrom(s, from, alts, word) IN
    IF m = <<>> THEN <<>>
    ELSE <<m[1].whole>>
         \o MatchAllFrom(s, m[1].index + Len(m[1].whole), alts, word)

matchAll(s, alts, word) == MatchAllFrom(s, 1, alts, word)

(***************************************************************************)
(* parseConfig                                                             *)
(***************************************************************************)
\* the CPU pattern without the CPU alternative
cpuMatchCoreOnly(raw) == match(raw, <<<<"c", "o", "r", "e">>>>, <<>>)

\* raw.match(/(\d+)\s*(core|CPU)/i)
cpuMatch(raw) == match(raw, <<<<"c", "o", "r", "e">>, <<"c", "p", "u">>>>, <<>>)

\* the RAM pattern accepting only a number labelled GB RAM
ramMatchLabelled(raw) == match(raw, <<<<"g", "b", " ", "r", "a", "m">>>>, <<>>)

\* raw.match(/(\d+)\s*(GB|GB RAM)/i)
ramMatch(raw) == match(raw, <<<<"g", "b">>, <<"g", "b", " ", "r", "a", "m">>>>, <<>>)

\* raw.toLowerCase().split('storage:')[1] || ''
storagePart(raw) ==
    LET part == splitSecond(toLowerCase(raw), <<"s", "t", "o", "r", "a", "g", "e", ":">>) IN
    IF part = Undefined THEN <<>> ELSE part

\* the storage scan without the tb unit
storageMatchesNoTb(raw) == matchAll(storagePart(raw), <<<<"g", "b">>, <<"g">>>>, <<>>)

\* storagePart.match(/(\d+)\s*(gb|g|tb)/gi)
storageMatches(raw) == matchAll(storagePart(raw), <<<<"g", "b">>, <<"g">>, <<"t", "b">>>>, <<>>)

\* the fallback search accepting GB only
fallbackMatchGbOnly(raw) == match(raw, <<<<"g", "b">>>>, <<"s", "t", "o", "r", "a", "g", "e">>)

\* raw.match(/(\d+)\s*(GB|G)\s*storage/i)
fallbackMatch(raw) == match(raw, <<<<"g", "b">>, <<"g">>>>, <<"s", "t", "o", "r", "a", "g", "e">>)

\* the forEach over storageMatches, adding to config.storage
RECURSIVE SumStorage(_, _, _)
SumStorage(ms, k, acc) ==
    IF k > Len(ms) THEN acc
    ELSE LET val == parseInt(ms[k]) IN
         IF includes(toLowerCase(ms[k]), <<"t", "b">>)
         THEN SumStorage(ms, k + 1, acc + val * 1024)
         ELSE SumStorage(ms, k + 1, acc + val)

\* parseConfig reading cpuMatch[1] without the test for a null match
parseConfigUnguarded(raw) ==
    IF raw = Undefined \/ cpuMatch(raw) = <<>> THEN Throw("TypeError")
    ELSE
    LET cm == cpuMatch(raw)
        rm == ramMatch(raw)
        sm == storageMatches(raw)
        fm == fallbackMatch(raw)
        cpu == parseInt(cm[1].group1)
        ram == IF rm # <<>> THEN parseInt(rm[1].group1) ELSE 0
        storage == IF sm # <<>> THEN SumStorage(sm, 1, 0)
                   ELSE IF fm # <<>> THEN parseInt(fm[1].group1)
                   ELSE 0
    IN  Return([cpu |-> cpu, ram |-> ram, storage |-> storage])

\* parseConfig marking a field without a match as -1
parseConfigMinusOne(raw) ==
    IF raw = Undefined THEN Throw("TypeError")
    ELSE
    LET cm == cpuMatch(raw)
        rm == ramMatch(raw)
        sm == storageMatches(raw)
        fm == fallbackMatch(raw)
        cpu == IF cm # <<>> THEN parseInt(cm[1].group1) ELSE 0 - 1
        ram == IF rm # <<>> THEN parseInt(rm[1].group1) ELSE 0 - 1
        storage == IF sm # <<>> THEN SumStorage(sm, 1, 0)
                   ELSE IF fm # <<>> THEN parseInt(fm[1].group1)
                   ELSE 0 - 1
    IN  Return([cpu |-> cpu, ram |-> ram, storage |-> storage])

\* parseConfig running the fallback search only when the text has no marker
parseConfigMarkerOnly(raw) ==
    IF raw = Undefined THEN Throw("TypeError")
    ELSE
    LET cm == cpuMatch(raw)
        rm == ramMatch(raw)
        sm == storageMatches(raw)
        fm == fallbackMatch(raw)
        cpu == IF cm # <<>> THEN parseInt(cm[1].group1) ELSE 0
        ram == IF rm # <<>> THEN parseInt(rm[1].group1) ELSE 0
        storage == IF sm # <<>> THEN SumStorage(sm, 1, 0)
                   ELSE IF includes(toLowerCase(raw), <<"s", "t", "o", "r", "a", "g", "e", ":">>) THEN 0
                   ELSE IF fm # <<>> THEN parseInt(fm[1].group1)
                   ELSE 0
    IN  Return([cpu |-> cpu, ram |-> ram, storage |-> storage])

parseConfig(raw) ==
    IF raw = Undefined THEN Throw("TypeError")
    ELSE
    LET cm == cpuMatch(raw)
        rm == ramMatch(raw)
        sm == storageMatches(raw)
        fm == fallbackMatch(raw)
        cpu == IF cm # <<>> THEN parseInt(cm[1].group1) ELSE 0
        ram == IF rm # <<>> THEN parseInt(rm[1].group1) ELSE 0
        storage == IF sm # <<>> THEN SumStorage(sm, 1, 0)
                   ELSE IF fm # <<>> THEN parseInt(fm[1].group1)
                   ELSE 0
    IN  Return([cpu |-> cpu, ram |-> ram, storage |-> storage])

(***************************************************************************)
(* calculateItemCost                                                       *)
(***************************************************************************)
\* the price table argument when the caller passes null or undefined
Null == [null |-> TRUE]

IsNull(prices) == DOMAIN prices = {"null"}

\* the OS test without toLowerCase
isWindowsExactCase(item) ==
    LET os == IF Prop(item, "os") = Undefined THEN <<>> ELSE item.os
    IN  includes(os, <<"w", "i", "n", "d", "o", "w">>)

\* (item.os || '').toLowerCase().includes('window')
isWindows(item) ==
    LET os == IF Prop(item, "os") = Undefined THEN <<>> ELSE item.os
    IN  includes(toLowerCase(os), <<"w", "i", "n", "d", "o", "w">>)

\* (config.cpu || 0) * (prices.cpu || 0)
cpuCost(config, prices) == OrZero(config, "cpu") * OrZero(prices, "cpu")

\* (config.ram || 0) * (prices.ram || 0)
ramCost(config, prices) == OrZero(config, "ram") * OrZero(prices, "ram")

\* prices[item.storageType] || prices.diskSanAllFlash || 0; a missing
\* storageType reads the property named "undefined"
storagePriceUnit(item, prices) ==
    LET tier == IF "storageType" \in DOMAIN item THEN item.storageType
                ELSE "undefined"
        tierPrice == OrZero(prices, tier)
    IN  IF tierPrice # 0 THEN tierPrice
        ELSE OrZero(prices, "diskSanAllFlash")

\* (config.storage || 0) * storagePriceUnit
storageCost(item, config, prices) ==
    OrZero(config, "storage") * storagePriceUnit(item, prices)

\* (item.bwQt || 0) * (prices.bandwidthQt || 0)
bwQtCost(item, prices) == OrZero(item, "bwQt") * OrZero(prices, "bandwidthQt")

\* (item.bwInternal || 0) * (prices.bandwidthInternal || 0)
bwInternalCost(item, prices) ==
    OrZero(item, "bwInternal") * OrZero(prices, "bandwidthInternal")

\* isWindows ? (prices.osWindows || 0) : (prices.osLinux || 0)
osCost(item, prices) ==
    IF isWindows(item) THEN OrZero(prices, "osWindows")
    ELSE OrZero(prices, "osLinux")

\* (item.quantity || 1)
quantityOrOne(item) ==
    IF "quantity" \in DOMAIN item /\ item.quantity # 0 THEN item.quantity ELSE 1

\* the sum without the internal bandwidth cost
unitPriceWithoutBwInternal(item, config, prices) ==
    cpuCost(config, prices) + ramCost(config, prices)
    + storageCost(item, config, prices) + osCost(item, prices)
    + bwQtCost(item, prices)

\* cpuCost + ramCost + storageCost + osCost + bwQtCost + bwInternalCost
unitPriceOf(item, config, prices) ==
    cpuCost(config, prices) + ramCost(config, prices)
    + storageCost(item, config, prices) + osCost(item, prices)
    + bwQtCost(item, prices) + bwInternalCost(item, prices)

\* calculateItemCost without the test for an absent price table: reading
\* prices.cpu of null throws
calculateItemCostUnguarded(item, prices) ==
    LET parsed == parseConfig(Prop(item, "configRaw")) IN
    IF parsed.kind = "throw" THEN parsed
    ELSE IF IsNull(prices) THEN Throw("TypeError")
    ELSE
    LET unitPrice == unitPriceOf(item, parsed.value, prices)
    IN  Return([unitPrice |-> unitPrice,
                totalPrice |-> unitPrice * quantityOrOne(item)])

calculateItemCost(item, prices) ==
    IF IsNull(prices) THEN Return([unitPrice |-> 0, totalPrice |-> 0])
    ELSE
    LET parsed == parseConfig(Prop(item, "configRaw")) IN
    IF parsed.kind = "throw" THEN parsed
    ELSE
    LET unitPrice == unitPriceOf(item, parsed.value, prices)
    IN  Return([unitPrice |-> unitPrice,
                totalPrice |-> unitPrice * quantityOrOne(item)])

(***************************************************************************)
(* calculateLaborCost                                                      *)
(***************************************************************************)
\* types.ts enum Role
Role == [PM |-> "Project Manager", SeniorDev |-> "Senior Developer",
         JuniorDev |-> "Junior Developer", Tester |-> "Tester",
         QC |-> "Quality Control", Designer |-> "UI/UX Designer",
         BA |-> "Business Analyst"]

\* the number NaN (what parseFloat gives for a text without a number), kept
\* apart from every explored quantity
NaN == 0 - 1000000

\* item.role as a property key: a missing role reads the key "undefined"
roleKey(item) == IF "role" \in DOMAIN item THEN item.role ELSE "undefined"

\* (item.mandays || 0): undefined, 0 and NaN are falsy
mandaysOrZero(item) ==
    IF "mandays" \in DOMAIN item /\ item.mandays # 0 /\ item.mandays # NaN
    THEN item.mandays ELSE 0

\* calculateLaborCost without the test for an absent table or item: reading
\* a property of null throws
calculateLaborCostUnguarded(item, prices) ==
    IF IsNull(prices) \/ IsNull(item) THEN Throw("TypeError")
    ELSE Return(mandaysOrZero(item) * OrZero(prices, roleKey(item)))

calculateLaborCost(item, prices) ==
    IF IsNull(prices) \/ IsNull(item) THEN Return(0)
    ELSE
    LET rate == OrZero(prices, roleKey(item))
    IN  Return(mandaysOrZero(item) * rate)

(***************************************************************************)
(* Explored configuration texts: every concatenation of at most MaxTokens  *)
(* tokens of one token set, and the texts the application itself writes.   *)
(***************************************************************************)
RECURSIVE Concat(_)
Concat(ts) == IF ts = <<>> THEN <<>> ELSE Head(ts) \o Concat(Tail(ts))

TextsOver(tokens) ==
    {Concat(ts) : ts \in UNION {[1..n -> tokens] : n \in 0..MaxTokens}}

CpuTokens == {<<"1">>, <<"2">>, <<"C", "o", "R", "e">>, <<" ", "c", "p", "u">>, <<"G", "b">>}

RamTokens == {<<"3">>, <<"4">>, <<" ", "g", "B">>, <<"c", "o", "r", "e">>, <<"s", "t", "o", "r", "a", "g", "e", ":">>}

StorageTokens == {<<"S", "t", "o", "r", "a", "g", "e", ":">>, <<"7", " ", "g">>, <<"5", "T", "b">>, <<" ", "s", "t", "o", "r", "a", "g", "e">>, <<"3">>}

\* constants.ts INITIAL_SERVERS[0].configRaw and the texts of new servers
SampleConfig == <<"C", "P", "U", ":", " ", "8", " ", "c", "o", "r", "e", ";", " ", "R", "A", "M", " ", "1", "6", "G", "B", ";", " ", "s", "t", "o", "r", "a", "g", "e", ":", " ", "1", "0", "0", "G", "B">>

AppTexts == {SampleConfig, <<"4", " ", "c", "o", "r", "e", " ", "8", "G", "B", " ", "s", "t", "o", "r", "a", "g", "e", ":", " ", "5", "0", "G", "B">>,
             <<"C", "P", "U", ":", " ", "2", " ", "c", "o", "r", "e", ";", " ", "R", "A", "M", " ", "4", "G", "B", ";", " ", "2", "0", "0", "G", "B", " ", "s", "t", "o", "r", "a", "g", "e">>,
             <<"s", "t", "o", "r", "a", "g", "e", ":", " ", "1", "0", "0", "G", "B", " ", "1", "T", "B">>, <<"n", "o", " ", "n", "u", "m", "b", "e", "r", "s", " ", "h", "e", "r", "e">>}

Texts == TextsOver(CpuTokens) \cup TextsOver(RamTokens)
         \cup TextsOver(StorageTokens) \cup AppTexts

ParseCalls == {[fn |-> "parseConfig", raw |-> t] : t \in Texts}

(***************************************************************************)
(* Explored server items and price tables.  Only the properties            *)
(* calculateItemCost reads are kept; any of them may be missing.           *)
(***************************************************************************)
\* constants.ts INITIAL_UNIT_PRICES
INITIAL_UNIT_PRICES ==
    [cpu |-> 166000, ram |-> 111000, diskSanAllFlash |-> 754,
     diskSanAllFlashSme |-> 3683, diskVsan |-> 219, diskSanHdd |-> 150,
     storageMinio |-> 18839, storageSmb3 |-> 754, storageNfsVsan |-> 438,
     storageCeph |-> 166, bandwidthQt |-> 1850000,
     bandwidthInternal |-> 40000, osWindows |-> 450000, osLinux |-> 0]

\* a table edited in the price form: every price raised by one, so that no
\* price is 0
EditedPrices ==
    [k \in DOMAIN INITIAL_UNIT_PRICES |-> INITIAL_UNIT_PRICES[k] + 1]

\* the keys calculateItemCost reads for the explored items
LookupKeys == {"cpu", "ram", "diskSanAllFlash", "diskVsan", "bandwidthQt",
               "bandwidthInternal", "osWindows", "osLinux"}

TierKeys == {"diskSanAllFlash", "diskVsan"}

\* base without the keys of absent and with price 0 for the keys of zeroed
TableOf(base, absent, zeroed) ==
    [k \in DOMAIN base \ absent |-> IF k \in zeroed THEN 0 ELSE base[k]]

BaseTables == {INITIAL_UNIT_PRICES, EditedPrices}

PriceTables ==
    {TableOf(base, absent, zeroed) :
        base \in BaseTables,
        absent \in {a \in SUBSET LookupKeys : Cardinality(a) <= MaxAbsent},
        zeroed \in SUBSET TierKeys}

OsTexts == {<<"U", "b", "u", "n", "t", "u", " ", "L", "i", "n", "u", "x", " ", "(", "6", "4", " ", "b", "i", "t", ")">>, <<"W", "i", "n", "d", "o", "w", "s", " ", "S", "e", "r", "v", "e", "r", " ", "2", "0", "1", "9">>, <<"W", "I", "N", "D", "O", "W">>,
            <<"w", "I", "n", "D", "o", "W", "s", " ", "1", "1">>, <<"W", "i", "n", " ", "d", "o", "w", "s">>, <<>>}

ItemFields == {"configRaw", "os", "quantity", "storageType", "bwQt",
               "bwInternal"}

FullItems(configs, oss, quantities, bws) ==
    [configRaw : configs, os : oss, quantity : quantities,
     storageType : TierKeys, bwQt : bws, bwInternal : bws]

\* the items with every property, and the same items with properties missing
Items ==
    {[k \in present |-> full[k]] :
        full \in FullItems({SampleConfig}, {<<"U", "b", "u", "n", "t", "u", " ", "L", "i", "n", "u", "x", " ", "(", "6", "4", " ", "b", "i", "t", ")">>,
                           <<"w", "I", "n", "D", "o", "W", "s", " ", "1", "1">>}, (0 - 1)..MaxQuantity, 0..MaxBw),
        present \in {ItemFields} \cup {ItemFields \ {k} : k \in ItemFields}}

\* items with every component of the price present
BaseItems ==
    {[k \in present |-> full[k]] :
        full \in FullItems({SampleConfig}, OsTexts, {MaxQuantity}, {MaxBw}),
        present \in {ItemFields, ItemFields \ {"storageType"}}}

ItemCostCalls ==
    {[fn |-> "calculateItemCost", item |-> i, prices |-> p] :
        i \in Items, p \in BaseTables \cup {Null}}
    \cup
    {[fn |-> "calculateItemCost", item |-> i, prices |-> p] :
        i \in BaseItems, p \in PriceTables}

(***************************************************************************)
(* Explored labor items and labor price tables.                            *)
(***************************************************************************)
\* constants.ts INITIAL_LABOR_PRICES: Quality Control has no entry
INITIAL_LABOR_PRICES ==
    (Role.PM :> 2500000) @@ (Role.BA :> 2000000) @@ (Role.SeniorDev :> 2200000)
    @@ (Role.JuniorDev :> 1200000) @@ (Role.Tester :> 1000000)
    @@ (Role.Designer :> 1800000)

Roles == {Role[k] : k \in DOMAIN Role}

\* the staffing roles derived from the developer mandays
StaffRoles == {Role.PM, Role.BA, Role.Tester}

\* a table edited in the price form: rates for QC added, some set to 0
EditedLaborPrices ==
    (Role.QC :> 900000) @@ (Role.Tester :> 0) @@ INITIAL_LABOR_PRICES

LaborTables ==
    {[r \in DOMAIN base \ absent |-> base[r]] :
        base \in {INITIAL_LABOR_PRICES, EditedLaborPrices},
        absent \in {a \in SUBSET Roles : Cardinality(a) <= MaxAbsent}}

\* mandays as the inputs and the import leave them
MandaysValues == (0..MaxMandays) \cup {0 - 1, NaN}

LaborItems ==
    {[role |-> r, mandays |-> d] : r \in Roles, d \in MandaysValues}
    \cup {[role |-> r] : r \in Roles}
    \cup {[mandays |-> d] : d \in MandaysValues}

LaborCalls ==
    {[fn |-> "calculateLaborCost", item |-> i, prices |-> p] :
        i \in LaborItems \cup {Null}, p \in LaborTables \cup {Null}}

Calls == ParseCalls \cup ItemCostCalls \cup LaborCalls

(***************************************************************************)
(* The state machine: a caller has prepared one call; the call runs.       *)
(***************************************************************************)
\* localStorage with no item
EmptyStorage == [k \in {} |-> <<>>]

\* App.tsx useState: the values the list state of App starts from
useStateInit ==
    /\ projects = <<>>
    /\ currentProjectId = Null
    /\ isLoading = TRUE
    /\ isDirty = FALSE
    /\ isSyncing = FALSE
    /\ isEstimatingAll = FALSE
    /\ isBatchEstimating = FALSE
    /\ estimatingIds = {}
    /\ inflight = {}
    /\ created = 0
    /\ passed = EmptyStorage

Init ==
    /\ call \in Calls
    /\ result = NoResult
    /\ currentProject = Null
    /\ localStorage = EmptyStorage
    /\ supabaseInstance = Null
    /\ now = 0
    /\ useStateInit

CallParseConfig ==
    /\ call.fn = "parseConfig"
    /\ result = NoResult
    /\ result' = parseConfig(call.raw)
    /\ UNCHANGED <<call, appVars>>

\* calculateItemCost storing the quantity it defaults back on its argument
CallCalculateItemCostStoringQuantity ==
    /\ call.fn = "calculateItemCost"
    /\ result = NoResult
    /\ result' = calculateItemCost(call.item, call.prices)
    /\ call' = [call EXCEPT !.item = [quantity |-> quantityOrOne(call.item)] @@ @]
    /\ UNCHANGED appVars

CallCalculateItemCost ==
    /\ call.fn = "calculateItemCost"
    /\ result = NoResult
    /\ result' = calculateItemCost(call.item, call.prices)
    /\ UNCHANGED <<call, appVars>>

CallCalculateLaborCost ==
    /\ call.fn = "calculateLaborCost"
    /\ result = NoResult
    /\ result' = calculateLaborCost(call.item, call.prices)
    /\ UNCHANGED <<call, appVars>>

Next == CallParseConfig \/ CallCalculateItemCost \/ CallCalculateLaborCost

Spec == Init /\ [][Next]_vars

(***************************************************************************)
(* App: the current project and the totals derived from it.  A number that *)
(* need not be whole is a fraction num/den in lowest terms, den > 0.       *)
(***************************************************************************)
RECURSIVE Gcd(_, _)
Gcd(a, b) == IF b = 0 THEN a ELSE Gcd(b, a % b)

Abs(n) == IF n < 0 THEN 0 - n ELSE n

Norm(q) ==
    LET g == Gcd(Abs(q.num), q.den) IN
    [num |-> q.num \div g, den |-> q.den \div g]

Rat(n) == [num |-> n, den |-> 1]

RatAdd(a, b) == Norm([num |-> a.num * b.den + b.num * a.den, den |-> a.den * b.den])

RatTimes(a, b) == Norm([num |-> a.num * b.num, den |-> a.den * b.den])

\* the labors filtered by role and reduced to the sum of (l.mandays || 0)
RECURSIVE devMandaysFrom(_, _, _)
devMandaysFrom(labors, k, sum) ==
    IF k > Len(labors) THEN sum
    ELSE IF roleKey(labors[k]) \in {Role.SeniorDev, Role.JuniorDev}
         THEN devMandaysFrom(labors, k + 1, sum + mandaysOrZero(labors[k]))
         ELSE devMandaysFrom(labors, k + 1, sum)

\* const ratio = 1 / 3
ratio == Norm([num |-> 1, den |-> 3])

\* autoLaborStats counting the Senior Developer items only
autoLaborStatsSeniorOnly ==
    IF IsNull(currentProject)
    THEN [pm |-> Rat(0), ba |-> Rat(0), tester |-> Rat(0), devTotal |-> 0]
    ELSE
    LET devMandays ==
            devMandaysFrom(SelectSeq(currentProject.labors,
                               LAMBDA l : roleKey(l) = Role.SeniorDev), 1, 0)
    IN  [devTotal |-> devMandays,
         pm |-> RatTimes(Rat(devMandays), ratio),
         ba |-> RatTimes(Rat(devMandays), ratio),
         tester |-> RatTimes(Rat(devMandays), ratio)]

autoLaborStats ==
    IF IsNull(currentProject)
    THEN [pm |-> Rat(0), ba |-> Rat(0), tester |-> Rat(0), devTotal |-> 0]
    ELSE
    LET devMandays == devMandaysFrom(currentProject.labors, 1, 0)
    IN  [devTotal |-> devMandays,
         pm |-> RatTimes(Rat(devMandays), ratio),
         ba |-> RatTimes(Rat(devMandays), ratio),
         tester |-> RatTimes(Rat(devMandays), ratio)]

\* servers.reduce((sum, s) => sum + calculateItemCost(s, infraPrices).totalPrice, 0)
RECURSIVE infraTotalFrom(_, _, _, _)
infraTotalFrom(servers, prices, k, sum) ==
    IF k > Len(servers) THEN sum
    ELSE infraTotalFrom(servers, prices, k + 1,
             sum + calculateItemCost(servers[k], prices).value.totalPrice)

infraTotal ==
    IF IsNull(currentProject) THEN 0
    ELSE infraTotalFrom(currentProject.servers, currentProject.infraPrices, 1, 0)

\* labors.reduce((sum, l) => sum + calculateLaborCost(l, laborPrices), 0)
RECURSIVE manualLaborTotalFrom(_, _, _, _)
manualLaborTotalFrom(labors, prices, k, sum) ==
    IF k > Len(labors) THEN sum
    ELSE manualLaborTotalFrom(labors, prices, k + 1,
             sum + calculateLaborCost(labors[k], prices).value)

manualLaborTotal ==
    IF IsNull(currentProject) THEN 0
    ELSE manualLaborTotalFrom(currentProject.labors, currentProject.laborPrices, 1, 0)

\* autoLaborTotal pricing the three staffing roles at the Project Manager rate
autoLaborTotalOneRate ==
    IF IsNull(currentProject) THEN Rat(0)
    ELSE
    LET lp == currentProject.laborPrices IN
    RatAdd(RatAdd(RatTimes(autoLaborStats.pm, Rat(OrZero(lp, Role.PM))),
                  RatTimes(autoLaborStats.ba, Rat(OrZero(lp, Role.PM)))),
           RatTimes(autoLaborStats.tester, Rat(OrZero(lp, Role.PM))))

autoLaborTotal ==
    IF IsNull(currentProject) THEN Rat(0)
    ELSE
    LET lp == currentProject.laborPrices IN
    RatAdd(RatAdd(RatTimes(autoLaborStats.pm, Rat(OrZero(lp, Role.PM))),
                  RatTimes(autoLaborStats.ba, Rat(OrZero(lp, Role.BA)))),
           RatTimes(autoLaborStats.tester, Rat(OrZero(lp, Role.Tester))))

\* the total with the derived staffing cost left out
grandTotalManualOnly == Rat(infraTotal + manualLaborTotal)

grandTotal == RatAdd(Rat(infraTotal + manualLaborTotal), autoLaborTotal)

\* utils.ts mapStringToRole
mapStringToRole(str) ==
    LET s == toLowerCase(IF str = Undefined THEN <<>> ELSE str) IN
    IF includes(s, <<"p", "m">>) \/ includes(s, <<"m", "a", "n", "a", "g", "e", "r">>) THEN Role.PM
    ELSE IF includes(s, <<"b", "a">>) \/ includes(s, <<"a", "n", "a", "l", "y", "s", "t">>) THEN Role.BA
    ELSE IF includes(s, <<"s", "e", "n", "i", "o", "r">>) THEN Role.SeniorDev
    ELSE IF includes(s, <<"t", "e", "s", "t">>) \/ includes(s, <<"q", "a">>) THEN Role.Tester
    ELSE IF includes(s, <<"d", "e", "s", "i", "g", "n">>) \/ includes(s, <<"u", "i">>) THEN Role.Designer
    ELSE Role.JuniorDev

\* constants.ts INITIAL_SERVERS
INITIAL_SERVERS ==
    <<[configRaw |-> SampleConfig, os |-> <<"U", "b", "u", "n", "t", "u", " ", "L", "i", "n", "u", "x", " ", "(", "6", "4", " ", "b", "i", "t", ")">>,
       quantity |-> 1, storageType |-> "diskSanAllFlash", bwQt |-> 0,
       bwInternal |-> 10]>>

\* constants.ts INITIAL_LABOR_ITEMS
INITIAL_LABOR_ITEMS ==
    <<[role |-> Role.BA, mandays |-> 10], [role |-> Role.SeniorDev, mandays |-> 5]>>

\* the sample project init builds when no project is stored
FirstProject ==
    [servers |-> INITIAL_SERVERS, labors |-> INITIAL_LABOR_ITEMS,
     infraPrices |-> INITIAL_UNIT_PRICES, laborPrices |-> INITIAL_LABOR_PRICES,
     lastModified |-> now]

\* a stored project as fetchProjectsFromCloud returns it: its labor price
\* table is whatever the row holds, here without Project Manager and Tester
FetchedProjects ==
    {[servers |-> <<>>, labors |-> INITIAL_LABOR_ITEMS,
      infraPrices |-> INITIAL_UNIT_PRICES,
      laborPrices |-> [r \in {Role.BA, Role.SeniorDev, Role.JuniorDev}
                          |-> INITIAL_LABOR_PRICES[r]],
      lastModified |-> 0]}

\* what the inputs of the labor table give: parseFloat(value) || 0
MandaysInputs == {0, 4}

\* rows of an imported sheet: the role text and parseFloat of the mandays
ImportRows ==
    {[role |-> t, mandays |-> d] :
        t \in {<<>>, <<"S", "e", "n", "i", "o", "r">>, <<"t", "e", "s", "t", "e", "r">>}, d \in {NaN, 4}}

\* texts typed into the configuration input of a server
ConfigInputs == {<<"s", "t", "o", "r", "a", "g", "e", ":", " ", "1", "0", "0", "G", "B", " ", "1", "T", "B">>}

\* rows of the price form and the prices typed into them
InfraPriceInputs == {<<"cpu", 0>>}

LaborPriceInputs == {<<Role.Tester, 0>>, <<Role.QC, 900000>>}

\* the useEffect of App: the first fetched project, or the sample project
\* Date.now() is read as now; the clock then moves on, up to MaxClock
Tick == now < MaxClock /\ now' = now + 1

init ==
    /\ IsNull(currentProject)
    /\ Tick
    /\ currentProject' \in FetchedProjects \cup {FirstProject}
    /\ UNCHANGED <<call, result, localStorage, supabaseInstance, listVars>>

handleCreateNewProject ==
    /\ Tick
    /\ currentProject' =
          [servers |-> <<>>, labors |-> <<>>,
           infraPrices |-> INITIAL_UNIT_PRICES,
           laborPrices |-> INITIAL_LABOR_PRICES,
           lastModified |-> now]
    /\ UNCHANGED <<call, result, localStorage, supabaseInstance, listVars>>

\* updateProject: without a current project nothing changes
updateProject(updates) ==
    /\ ~IsNull(currentProject)
    /\ Tick
    /\ currentProject' = [lastModified |-> now] @@ updates @@ currentProject
    /\ UNCHANGED <<call, result, localStorage, supabaseInstance, listVars>>

RemoveAt(seq, i) == SubSeq(seq, 1, i - 1) \o SubSeq(seq, i + 1, Len(seq))

AddLabor ==
    /\ ~IsNull(currentProject)
    /\ Len(currentProject.labors) < MaxLabors
    /\ updateProject([labors |->
           Append(currentProject.labors, [role |-> Role.JuniorDev, mandays |-> 1])])

SetLaborRole ==
    /\ ~IsNull(currentProject)
    /\ \E i \in 1..Len(currentProject.labors), r \in Roles :
          updateProject([labors |->
              [currentProject.labors EXCEPT ![i] = [role |-> r] @@ @]])

SetLaborMandays ==
    /\ ~IsNull(currentProject)
    /\ \E i \in 1..Len(currentProject.labors), d \in MandaysInputs :
          updateProject([labors |->
              [currentProject.labors EXCEPT ![i] = [mandays |-> d] @@ @]])

DeleteLabor ==
    /\ ~IsNull(currentProject)
    /\ \E i \in 1..Len(currentProject.labors) :
          updateProject([labors |-> RemoveAt(currentProject.labors, i)])

handleImportExcel ==
    /\ ~IsNull(currentProject)
    /\ Len(currentProject.labors) < MaxLabors
    /\ \E row \in ImportRows :
          updateProject([labors |->
              Append(currentProject.labors,
                     [role |-> mapStringToRole(row.role), mandays |-> row.mandays])])

AddServer ==
    /\ ~IsNull(currentProject)
    /\ Len(currentProject.servers) < MaxServers
    /\ updateProject([servers |->
           Append(currentProject.servers,
                  [configRaw |-> <<"4", " ", "c", "o", "r", "e", " ", "8", "G", "B", " ", "s", "t", "o", "r", "a", "g", "e", ":", " ", "1", "0", "0", "G", "B">>, os |-> <<"L", "i", "n", "u", "x">>,
                   quantity |-> 1, storageType |-> "diskSanAllFlash",
                   bwQt |-> 0, bwInternal |-> 0])])

SetServerConfigRaw ==
    /\ ~IsNull(currentProject)
    /\ \E i \in 1..Len(currentProject.servers), t \in ConfigInputs :
          updateProject([servers |->
              [currentProject.servers EXCEPT ![i] = [configRaw |-> t] @@ @]])

\* parseInt(value) || 1
SetServerQuantity ==
    /\ ~IsNull(currentProject)
    /\ \E i \in 1..Len(currentProject.servers), q \in 1..MaxQuantity :
          updateProject([servers |->
              [currentProject.servers EXCEPT ![i] = [quantity |-> q] @@ @]])

DeleteServer ==
    /\ ~IsNull(currentProject)
    /\ \E i \in 1..Len(currentProject.servers) :
          updateProject([servers |-> RemoveAt(currentProject.servers, i)])

SetInfraPrice ==
    /\ ~IsNull(currentProject)
    /\ \E e \in InfraPriceInputs :
          updateProject([infraPrices |->
              (e[1] :> e[2]) @@ currentProject.infraPrices])

SetLaborPrice ==
    /\ ~IsNull(currentProject)
    /\ \E e \in LaborPriceInputs :
          updateProject([laborPrices |->
              (e[1] :> e[2]) @@ currentProject.laborPrices])

InitApp ==
    /\ call = [fn |-> "none"]
    /\ result = NoResult
    /\ currentProject = Null
    /\ localStorage = EmptyStorage
    /\ supabaseInstance = Null
    /\ now = 0
    /\ useStateInit

NextApp ==
    \/ init
    \/ handleCreateNewProject
    \/ AddLabor
    \/ SetLaborRole
    \/ SetLaborMandays
    \/ DeleteLabor
    \/ handleImportExcel
    \/ AddServer
    \/ SetServerConfigRaw
    \/ SetServerQuantity
    \/ DeleteServer
    \/ SetInfraPrice
    \/ SetLaborPrice

SpecApp == InitApp /\ [][NextApp]_vars

(***************************************************************************)
(* The three calculations called while a project is open, the local store  *)
(* holds data and the cloud client is cached.                              *)
(***************************************************************************)
\* utils.ts CLOUD_CONFIG_KEY and PROJECTS_KEY
CLOUD_CONFIG_KEY == "estimacore_cloud_config"

PROJECTS_KEY == "estimator_projects"

\* utils.ts HARDCODED_URL and HARDCODED_KEY, the key abbreviated
HARDCODED_URL == "https://pggapuatkhocxihyuprx.supabase.co"

HARDCODED_KEY == "eyJhbGciOiJIUzI1NiIsInR5cCI6IkpXVCJ9"

\* localStorage as it may stand: empty, with the project list, and with the
\* saved cloud configuration as well
Stores ==
    {EmptyStorage,
     PROJECTS_KEY :> <<[FirstProject EXCEPT !.lastModified = 0]>>,
     (PROJECTS_KEY :> <<[FirstProject EXCEPT !.lastModified = 0]>>)
     @@ (CLOUD_CONFIG_KEY :> [url |-> HARDCODED_URL, key |-> HARDCODED_KEY])}

\* supabaseInstance: null, or the client getSupabase has created
Clients == {Null, [url |-> HARDCODED_URL, key |-> HARDCODED_KEY]}

\* the calls App makes on the sample project, and calls with absent arguments
FrameCalls ==
    {[fn |-> "parseConfig", raw |-> t] : t \in AppTexts}
    \cup {[fn |-> "calculateItemCost", item |-> i, prices |-> p] :
            i \in {INITIAL_SERVERS[1],
                   [INITIAL_SERVERS[1] EXCEPT !.quantity = 0],
                   [k \in ItemFields \ {"quantity"} |-> INITIAL_SERVERS[1][k]]},
            p \in {INITIAL_UNIT_PRICES, Null}}
    \cup {[fn |-> "calculateLaborCost", item |-> i, prices |-> p] :
            i \in {INITIAL_LABOR_ITEMS[1], INITIAL_LABOR_ITEMS[2], Null},
            p \in {INITIAL_LABOR_PRICES, Null}}

InitFrame ==
    /\ call \in FrameCalls
    /\ result = NoResult
    /\ now = 0
    /\ useStateInit
    /\ currentProject \in {Null, FirstProject}
    /\ localStorage \in Stores
    /\ supabaseInstance \in Clients

SpecFrame == InitFrame /\ [][Next]_vars

(***************************************************************************)
(* mapStringToRole on the role names exportProjectToExcel writes and on    *)
(* other texts of the role column.                                         *)
(***************************************************************************)
\* the characters of each value of Role
RoleText ==
    (Role.PM :> <<"P", "r", "o", "j", "e", "c", "t", " ", "M", "a", "n", "a", "g", "e", "r">>) @@ (Role.SeniorDev :> <<"S", "e", "n", "i", "o", "r", " ", "D", "e", "v", "e", "l", "o", "p", "e", "r">>)
    @@ (Role.JuniorDev :> <<"J", "u", "n", "i", "o", "r", " ", "D", "e", "v", "e", "l", "o", "p", "e", "r">>) @@ (Role.Tester :> <<"T", "e", "s", "t", "e", "r">>)
    @@ (Role.QC :> <<"Q", "u", "a", "l", "i", "t", "y", " ", "C", "o", "n", "t", "r", "o", "l">>) @@ (Role.Designer :> <<"U", "I", "/", "U", "X", " ", "D", "e", "s", "i", "g", "n", "e", "r">>)
    @@ (Role.BA :> <<"B", "u", "s", "i", "n", "e", "s", "s", " ", "A", "n", "a", "l", "y", "s", "t">>)

RoleTokens == {<<"P", "M">>, <<"B", "a">>, <<" ", "s", "e", "n", "i", "o", "r">>, <<"Q", "A">>, <<" ", "d", "e", "v">>}

\* row['Vai trò'] || row['Role'] || '': the cell of an exported row, a text
\* typed into the sheet, or nothing
RoleCells ==
    {RoleText[r] : r \in Roles} \cup TextsOver(RoleTokens)
    \cup {<<"u", "i", " ", "d", "e", "s", "i", "g", "n">>, <<"t", "e", "s", "t", "e", "r">>, <<"A", "n", "a", "l", "y", "s", "t">>, <<"m", "a", "n", "a", "g", "e", "r">>}

RoleCalls == {[fn |-> "mapStringToRole", str |-> t] : t \in RoleCells}

InitRoles ==
    /\ call \in RoleCalls
    /\ result = NoResult
    /\ currentProject = Null
    /\ localStorage = EmptyStorage
    /\ supabaseInstance = Null
    /\ now = 0
    /\ useStateInit

CallMapStringToRole ==
    /\ call.fn = "mapStringToRole"
    /\ result = NoResult
    /\ result' = Return(mapStringToRole(call.str))
    /\ UNCHANGED <<call, appVars>>

NextRoles == CallMapStringToRole

SpecRoles == InitRoles /\ [][NextRoles]_vars

(***************************************************************************)
(* The copies of calculateItemCost and calculateLaborCost in               *)
(* src/unnamed/part_003 and src/unnamed/part_004.  Their parseConfig is    *)
(* the text of the one in utils.ts.                                        *)
(***************************************************************************)
\* parseConfig of part_003 (lines 29-48) and of part_004 (lines 56-75): the
\* text of utils.ts parseConfig, character for character
parseConfig_copies(raw) == parseConfig(raw)

\* part_003 lines 50-68, given the outcome `parsed` of its call
\* parseConfig(item.configRaw), which nothing but the early return precedes
calculateItemCost_part_003(parsed, item, prices) ==
    IF IsNull(prices) THEN Return([unitPrice |-> 0, totalPrice |-> 0])
    ELSE IF parsed.kind = "throw" THEN parsed
    ELSE
    LET unitPrice == unitPriceOf(item, parsed.value, prices)
    IN  Return([unitPrice |-> unitPrice,
                totalPrice |-> unitPrice * quantityOrOne(item)])

\* part_003 lines 70-74
calculateLaborCost_part_003(item, prices) ==
    IF IsNull(prices) \/ IsNull(item) THEN Return(0)
    ELSE
    LET rate == OrZero(prices, roleKey(item))
    IN  Return(mandaysOrZero(item) * rate)

\* part_004 lines 77-89, given the outcome `parsed` of its call
\* parseConfig(item.configRaw): prices is not tested; parseConfig runs first,
\* then prices.cpu is read
calculateItemCost_part_004(parsed, item, prices) ==
    IF parsed.kind = "throw" THEN parsed
    ELSE IF IsNull(prices) THEN Throw("TypeError")
    ELSE
    LET unitPrice == unitPriceOf(item, parsed.value, prices)
    IN  Return([unitPrice |-> unitPrice,
                totalPrice |-> unitPrice * quantityOrOne(item)])

\* part_004 lines 91-94: neither prices nor item is tested before
\* prices[item.role] is read
calculateLaborCost_part_004(item, prices) ==
    IF IsNull(item) \/ IsNull(prices) THEN Throw("TypeError")
    ELSE
    LET rate == OrZero(prices, roleKey(item))
    IN  Return(mandaysOrZero(item) * rate)

CopyCalls ==
    {[fn |-> "calculateItemCost", item |-> i, prices |-> p] :
        i \in Items, p \in {INITIAL_UNIT_PRICES, Null}}
    \cup LaborCalls

InitCopies ==
    /\ call \in CopyCalls
    /\ result = NoResult
    /\ currentProject = Null
    /\ localStorage = EmptyStorage
    /\ supabaseInstance = Null
    /\ now = 0
    /\ useStateInit

\* the same call made on utils.ts and on each of the two copies; the copies'
\* parseConfig, one text, is worked out once for both
CallCalculateItemCostCopies ==
    /\ call.fn = "calculateItemCost"
    /\ result = NoResult
    /\ \E parsed \in {parseConfig_copies(Prop(call.item, "configRaw"))} :
        result' = [kind |-> "outcomes",
                   utils |-> calculateItemCost(call.item, call.prices),
                   part_003 |-> calculateItemCost_part_003(parsed, call.item, call.prices),
                   part_004 |-> calculateItemCost_part_004(parsed, call.item, call.prices)]
    /\ UNCHANGED <<call, appVars>>

CallCalculateLaborCostCopies ==
    /\ call.fn = "calculateLaborCost"
    /\ result = NoResult
    /\ result' = [kind |-> "outcomes",
                  utils |-> calculateLaborCost(call.item, call.prices),
                  part_003 |-> calculateLaborCost_part_003(call.item, call.prices),
                  part_004 |-> calculateLaborCost_part_004(call.item, call.prices)]
    /\ UNCHANGED <<call, appVars>>

NextCopies == CallCalculateItemCostCopies \/ CallCalculateLaborCostCopies

SpecCopies == InitCopies /\ [][NextCopies]_vars

(***************************************************************************)
(* The cloud configuration and the client of utils.ts: getCloudConfig,     *)
(* saveCloudConfig, getSupabase, resetSupabaseInstance, and the handler    *)
(* handleSaveCloudConfig of App that calls them.                           *)
(***************************************************************************)
MaxClients == 2

\* what the settings form can hold: each field empty, the value in the
\* code, or another value
CloudConfigs ==
    {[url |-> u, key |-> k] :
        u \in {"", HARDCODED_URL, "https://other.supabase.co"},
        k \in {"", HARDCODED_KEY, "other-anon-key"}}

\* utils.ts getEnv: no environment variable is set in the browser
getEnv(key) == ""

\* JSON.stringify and JSON.parse of a CloudConfig: an object of two strings
\* keeps exactly its two properties
stringifyConfig(config) == [url |-> config.url, key |-> config.key]

parseConfigText(text) == [url |-> text.url, key |-> text.key]

\* utils.ts getCloudConfig on a local storage
getCloudConfigOf(storage) ==
    IF HARDCODED_URL # "" /\ HARDCODED_KEY # ""
    THEN [url |-> HARDCODED_URL, key |-> HARDCODED_KEY]
    ELSE IF CLOUD_CONFIG_KEY \in DOMAIN storage
    THEN parseConfigText(storage[CLOUD_CONFIG_KEY])
    ELSE [url |-> getEnv("SUPABASE_URL"), key |-> getEnv("SUPABASE_ANON_KEY")]

getCloudConfig == getCloudConfigOf(localStorage)

\* createClient: a new object each time, told apart by its number
createClient(url, key) == [url |-> url, key |-> key, instance |-> created + 1]

\* utils.ts getSupabase on a local storage and a held instance: the client
\* it returns, which is also the instance held afterwards
getSupabaseOf(storage, instance) ==
    IF ~IsNull(instance) THEN instance
    ELSE
    LET config == getCloudConfigOf(storage) IN
    IF config.url # "" /\ config.key # ""
    THEN createClient(config.url, config.key)
    ELSE Null

uiVars == <<projects, currentProjectId, isLoading, isDirty, isSyncing,
            isEstimatingAll, isBatchEstimating, estimatingIds, inflight,
            passed>>

CallGetCloudConfig ==
    /\ call' = [fn |-> "getCloudConfig"]
    /\ result' = Return(getCloudConfig)
    /\ UNCHANGED <<currentProject, localStorage, supabaseInstance, now, listVars>>

CallSaveCloudConfig ==
    \E config \in CloudConfigs :
        /\ call' = [fn |-> "saveCloudConfig", config |-> config]
        /\ localStorage' =
              (CLOUD_CONFIG_KEY :> stringifyConfig(config)) @@ localStorage
        /\ result' = Return(Undefined)
        /\ UNCHANGED <<currentProject, supabaseInstance, now, listVars>>

CallGetSupabase ==
    LET client == getSupabaseOf(localStorage, supabaseInstance)
        built == IsNull(supabaseInstance) /\ ~IsNull(client)
    IN  /\ built => created < MaxClients
        /\ call' = [fn |-> "getSupabase"]
        /\ supabaseInstance' = client
        /\ created' = IF built THEN created + 1 ELSE created
        /\ result' = Return(client)
        /\ UNCHANGED <<currentProject, localStorage, now, uiVars>>

CallResetSupabaseInstance ==
    /\ call' = [fn |-> "resetSupabaseInstance"]
    /\ supabaseInstance' = Null
    /\ result' = Return(Undefined)
    /\ UNCHANGED <<currentProject, localStorage, now, listVars>>

\* App.tsx handleSaveCloudConfig: saveCloudConfig, resetSupabaseInstance,
\* then handleCheckDb, whose checkSupabaseConnection calls getSupabase
\* before its first await
handleSaveCloudConfig ==
    \E cloudConfig \in CloudConfigs :
        LET storage == (CLOUD_CONFIG_KEY :> stringifyConfig(cloudConfig))
                           @@ localStorage
            client == getSupabaseOf(storage, Null)
        IN  /\ ~IsNull(client) => created < MaxClients
            /\ call' = [fn |-> "handleSaveCloudConfig", config |-> cloudConfig]
            /\ localStorage' = storage
            /\ supabaseInstance' = client
            /\ created' = IF IsNull(client) THEN created ELSE created + 1
            /\ result' = Return(Undefined)
            /\ UNCHANGED <<currentProject, now, uiVars>>

InitCloud ==
    /\ call = [fn |-> "none"]
    /\ result = NoResult
    /\ currentProject = Null
    /\ localStorage = EmptyStorage
    /\ supabaseInstance = Null
    /\ now = 0
    /\ useStateInit

NextCloud ==
    \/ CallGetCloudConfig
    \/ CallSaveCloudConfig
    \/ CallGetSupabase
    \/ CallResetSupabaseInstance
    \/ handleSaveCloudConfig

SpecCloud == InitCloud /\ [][NextCloud]_vars

(***************************************************************************)
(* The local store of projects: loadProjectsFromLocal, saveProjectToCloud  *)
(* and deleteProjectFromCloud of utils.ts.  Each of the two runs up to its *)
(* await in one step; the answer of the cloud arrives in a later step.     *)
(***************************************************************************)
MaxInflight == 2

\* JSON null where a number stood
NullNumber == 0 - 1000001

\* the ids 'p1' and 'p' + Date.now() of projects, 'l1' and 'l' + Date.now()
\* of labor items
ProjectId(n) == [p |-> n]

LaborId(n) == [l |-> n]

\* a Project with the given id, labor items and time of modification
ProjectOf(id, labors, t) ==
    [id |-> id, servers |-> <<>>, labors |-> labors,
     infraPrices |-> INITIAL_UNIT_PRICES, laborPrices |-> INITIAL_LABOR_PRICES,
     lastModified |-> t]

\* a LaborItem of the list of projects: INITIAL_LABOR_ITEMS with id and
\* taskName
LaborOf(id, taskName, role, mandays) ==
    [id |-> id, taskName |-> taskName, role |-> role, mandays |-> mandays]

\* JSON.stringify followed by JSON.parse of a project: a NaN comes back as
\* null, everything else as it was
stringifyLabor(l) ==
    IF l.mandays = NaN THEN [l EXCEPT !.mandays = NullNumber] ELSE l

stringifyProject(p) ==
    [p EXCEPT !.labors = [i \in 1..Len(p.labors) |-> stringifyLabor(p.labors[i])]]

stringifyProjects(ps) == [i \in 1..Len(ps) |-> stringifyProject(ps[i])]

\* utils.ts loadProjectsFromLocal on a local storage
loadProjectsFromLocalOf(storage) ==
    IF PROJECTS_KEY \in DOMAIN storage THEN storage[PROJECTS_KEY] ELSE <<>>

\* findIndex: the first index with the id, or -1
findIndex(ps, id) ==
    IF \E i \in 1..Len(ps) : ps[i].id = id
    THEN CHOOSE i \in 1..Len(ps) :
            /\ ps[i].id = id
            /\ \A j \in 1..(i - 1) : ps[j].id # id
    ELSE 0 - 1

\* localProjects with every saved project appended
putProjectPushOnly(localProjects, project) == Append(localProjects, project)

\* utils.ts saveProjectToCloud lines 157-159: replace at the index, or push
putProject(localProjects, project) ==
    LET index == findIndex(localProjects, project.id) IN
    IF index >= 0 THEN [localProjects EXCEPT ![index] = project]
    ELSE Append(localProjects, project)

\* the local storage saveProjectToCloud leaves (lines 156-160)
saveProjectToCloud_local(storage, project) ==
    (PROJECTS_KEY :>
        stringifyProjects(putProject(loadProjectsFromLocalOf(storage), project)))
    @@ storage

\* filter(p => p.id !== id)
filterOut(ps, id) == SelectSeq(ps, LAMBDA p : p.id # id)

\* the local storage deleteProjectFromCloud leaves (lines 212-213)
deleteProjectFromCloud_local(storage, id) ==
    (PROJECTS_KEY :>
        stringifyProjects(filterOut(loadProjectsFromLocalOf(storage), id)))
    @@ storage

\* a function without the key
Without(f, k) == [x \in DOMAIN f \ {k} |-> f[x]]

\* the projects handed to saveProjectToCloud: two ids, and for each a
\* version without labor items, one with a number of mandays and one whose
\* mandays were imported from a cell that is no number
StoreProjects ==
    {ProjectOf(ProjectId(n), ls, 0) :
        n \in 1..2,
        ls \in {<<>>,
                <<LaborOf(LaborId(1), "Task", Role.JuniorDev, 4)>>,
                <<LaborOf(LaborId(1), "Task", Role.JuniorDev, NaN)>>}}

\* saveProjectToCloud up to its await; without a client it is over at once
CallSaveProjectToCloud ==
    \E project \in StoreProjects :
        LET storage == saveProjectToCloud_local(localStorage, project)
            client == getSupabaseOf(storage, supabaseInstance)
            built == IsNull(supabaseInstance) /\ ~IsNull(client)
        IN  /\ Cardinality(inflight) < MaxInflight
            /\ built => created < MaxClients
            /\ call' = [fn |-> "saveProjectToCloud", project |-> project]
            /\ localStorage' = storage
            /\ passed' = (project.id :> project) @@ passed
            /\ supabaseInstance' = client
            /\ created' = IF built THEN created + 1 ELSE created
            /\ IF IsNull(client)
               THEN result' = Return(Undefined) /\ UNCHANGED inflight
               ELSE /\ result' = NoResult
                    /\ inflight' = inflight \cup
                          {[h |-> "saveProjectToCloud", project |-> project]}
            /\ UNCHANGED <<currentProject, now, projects, currentProjectId,
                           isLoading, isDirty, isSyncing, isEstimatingAll,
                           isBatchEstimating, estimatingIds>>

\* the upsert answers without an error: the call is fulfilled
upsertFulfilled ==
    \E t \in inflight :
        /\ t.h = "saveProjectToCloud"
        /\ inflight' = inflight \ {t}
        /\ call' = [fn |-> "saveProjectToCloud", project |-> t.project]
        /\ result' = Return(Undefined)
        /\ UNCHANGED <<currentProject, localStorage, supabaseInstance, now,
                       projects, currentProjectId, isLoading, isDirty,
                       isSyncing, isEstimatingAll, isBatchEstimating,
                       estimatingIds, created, passed>>

\* the upsert answers with an error: it is thrown again
upsertFailed ==
    \E t \in inflight :
        /\ t.h = "saveProjectToCloud"
        /\ inflight' = inflight \ {t}
        /\ call' = [fn |-> "saveProjectToCloud", project |-> t.project]
        /\ result' = Throw("error")
        /\ UNCHANGED <<currentProject, localStorage, supabaseInstance, now,
                       projects, currentProjectId, isLoading, isDirty,
                       isSyncing, isEstimatingAll, isBatchEstimating,
                       estimatingIds, created, passed>>

\* deleteProjectFromCloud up to its await
CallDeleteProjectFromCloud ==
    \E n \in 1..2 :
        LET id == ProjectId(n)
            storage == deleteProjectFromCloud_local(localStorage, id)
            client == getSupabaseOf(storage, supabaseInstance)
            built == IsNull(supabaseInstance) /\ ~IsNull(client)
        IN  /\ Cardinality(inflight) < MaxInflight
            /\ built => created < MaxClients
            /\ call' = [fn |-> "deleteProjectFromCloud", id |-> id]
            /\ localStorage' = storage
            /\ passed' = Without(passed, id)
            /\ supabaseInstance' = client
            /\ created' = IF built THEN created + 1 ELSE created
            /\ IF IsNull(client)
               THEN result' = Return(Undefined) /\ UNCHANGED inflight
               ELSE /\ result' = NoResult
                    /\ inflight' = inflight \cup
                          {[h |-> "deleteProjectFromCloud", id |-> id]}
            /\ UNCHANGED <<currentProject, now, projects, currentProjectId,
                           isLoading, isDirty, isSyncing, isEstimatingAll,
                           isBatchEstimating, estimatingIds>>

\* the delete answers, or throws and the catch swallows it
deleteSettled ==
    \E t \in inflight :
        /\ t.h = "deleteProjectFromCloud"
        /\ inflight' = inflight \ {t}
        /\ call' = [fn |-> "deleteProjectFromCloud", id |-> t.id]
        /\ result' = Return(Undefined)
        /\ UNCHANGED <<currentProject, localStorage, supabaseInstance, now,
                       projects, currentProjectId, isLoading, isDirty,
                       isSyncing, isEstimatingAll, isBatchEstimating,
                       estimatingIds, created, passed>>

InitStore ==
    /\ call = [fn |-> "none"]
    /\ result = NoResult
    /\ currentProject = Null
    /\ localStorage = EmptyStorage
    /\ supabaseInstance = Null
    /\ now = 0
    /\ useStateInit

NextStore ==
    \/ CallSaveProjectToCloud
    \/ upsertFulfilled
    \/ upsertFailed
    \/ CallDeleteProjectFromCloud
    \/ deleteSettled

SpecStore == InitStore /\ [][NextStore]_vars

(***************************************************************************)
(* App with its list of projects (App.tsx lines 44-300).  A handler that   *)
(* awaits runs up to the await in one step and goes on in a later step     *)
(* with the projects, currentProjectId and currentProject of the render it *)
(* was started from; setProjects(prev => ...) alone sees the list as it is *)
(* then.  The user acts on the latest render, and only while the page is   *)
(* shown.                                                                  *)
(***************************************************************************)
\* Date.now(): a time far from 1, as now counts from 0
Epoch == 1000

DateNow == Epoch + now

\* the readings of Date.now() the list model follows, and the projects it
\* lets the list hold
MaxListClock == 2

MaxProjects == 3

ListTick == now < MaxListClock /\ now' = now + 1

\* constants.ts INITIAL_LABOR_ITEMS with the id and taskName of each item
InitialLabors ==
    <<INITIAL_LABOR_ITEMS[1] @@ [id |-> LaborId(1), taskName |-> "Phân tích nghiệp vụ (BA)"],
      INITIAL_LABOR_ITEMS[2] @@ [id |-> LaborId(2), taskName |-> "Thiết kế Database"]>>

\* what fetchProjectsFromCloud may return: nothing, or two stored projects,
\* one of them with an imported item without a task name
FetchedLists ==
    {<<>>,
     <<ProjectOf(ProjectId(2), <<LaborOf(LaborId(3), "", Role.JuniorDev, 2)>>, 0),
       ProjectOf(ProjectId(1), InitialLabors, 0)>>}

\* what predictTaskMandays may return: null, 0 for an answer that is no
\* number, or a number of mandays
PredictionResults == {NullNumber, 0, 3}

\* projects.find(p => p.id === currentProjectId) || null
find(ps, id) ==
    IF IsNull(id) \/ findIndex(ps, id) < 0 THEN Null ELSE ps[findIndex(ps, id)]

\* line 271-272: the page with its buttons and inputs is rendered
pageShown == ~isLoading /\ ~IsNull(find(projects, currentProjectId))

\* the list as a function from id to project
ById(ps) == [id \in {ps[i].id : i \in 1..Len(ps)} |-> find(ps, id)]

\* the init effect, lines 62-92; nothing is shown before it has ended, so
\* no handler runs in between
useEffectInit ==
    /\ isLoading
    /\ \E data \in FetchedLists :
          LET client == getSupabaseOf(localStorage, supabaseInstance)
              first == ProjectOf(ProjectId(1), InitialLabors, DateNow)
          IN  /\ supabaseInstance' = client
              /\ created' = IF IsNull(supabaseInstance) /\ ~IsNull(client)
                            THEN created + 1 ELSE created
              /\ IF data # <<>>
                 THEN /\ projects' = data
                      /\ currentProjectId' = data[1].id
                      /\ passed' = ById(data)
                      /\ UNCHANGED <<localStorage, now>>
                 ELSE /\ ListTick
                      /\ projects' = <<first>>
                      /\ currentProjectId' = ProjectId(1)
                      /\ localStorage' = saveProjectToCloud_local(localStorage, first)
                      /\ passed' = (first.id :> first) @@ passed
    /\ isLoading' = FALSE
    /\ UNCHANGED <<call, result, currentProject, isDirty, isSyncing,
                   isEstimatingAll, isBatchEstimating, estimatingIds, inflight>>

\* lines 243-258
handleCreateNewProjectInList ==
    /\ pageShown
    /\ Len(projects) < MaxProjects
    /\ ListTick
    /\ LET id == ProjectId(DateNow)
           n == ProjectOf(id, <<>>, DateNow)
       IN  /\ projects' = <<n>> \o projects
           /\ currentProjectId' = id
    /\ isDirty' = TRUE
    /\ UNCHANGED <<call, result, currentProject, localStorage, supabaseInstance,
                   isLoading, isSyncing, isEstimatingAll, isBatchEstimating,
                   estimatingIds, inflight, created, passed>>

\* line 294: a click on a project of the list
setCurrentProjectId ==
    /\ pageShown
    /\ \E i \in 1..Len(projects) :
          /\ projects[i].id # currentProjectId
          /\ currentProjectId' = projects[i].id
    /\ UNCHANGED <<call, result, currentProject, localStorage, supabaseInstance,
                   now, projects, isLoading, isDirty, isSyncing,
                   isEstimatingAll, isBatchEstimating, estimatingIds, inflight,
                   created, passed>>

\* lines 99-104, called from a render whose currentProjectId and
\* currentProject are id and cp: the list setProjects(prev => ...) gives
updatedList(prev, id, cp, updates) ==
    LET updated == [lastModified |-> DateNow] @@ updates @@ cp
    IN  [i \in 1..Len(prev) |-> IF prev[i].id = id THEN updated ELSE prev[i]]

\* updateProject called by the user on the page shown
updateProjectInList(updates) ==
    /\ pageShown
    /\ ListTick
    /\ projects' = updatedList(projects, currentProjectId,
                               find(projects, currentProjectId), updates)
    /\ isDirty' = TRUE
    /\ UNCHANGED <<call, result, currentProject, localStorage, supabaseInstance,
                   currentProjectId, isLoading, isSyncing, isEstimatingAll,
                   isBatchEstimating, estimatingIds, inflight, created, passed>>

\* line 392: the button that adds a labor item
ListAddLabor ==
    /\ pageShown
    /\ Len(find(projects, currentProjectId).labors) < MaxLabors
    /\ updateProjectInList([labors |->
           Append(find(projects, currentProjectId).labors,
                  LaborOf(LaborId(DateNow), "Task mới", Role.JuniorDev, 1))])

\* line 419: the mandays input of a labor item
ListSetLaborMandays ==
    /\ pageShown
    /\ \E i \in 1..Len(find(projects, currentProjectId).labors),
          d \in MandaysInputs :
          /\ find(projects, currentProjectId).labors[i].mandays # d
          /\ updateProjectInList([labors |->
                 [find(projects, currentProjectId).labors
                     EXCEPT ![i] = [mandays |-> d] @@ @]])

\* handleSaveProject, lines 106-110, up to the await: saveProjectToCloud has
\* written the local list and waits for the upsert
handleSaveProject ==
    /\ pageShown
    /\ ~isSyncing
    /\ Cardinality(inflight) < MaxInflight
    /\ LET project == find(projects, currentProjectId)
           storage == saveProjectToCloud_local(localStorage, project)
           client == getSupabaseOf(storage, supabaseInstance)
           built == IsNull(supabaseInstance) /\ ~IsNull(client)
       IN  /\ built => created < MaxClients
           /\ call' = [fn |-> "saveProjectToCloud", project |-> project]
           /\ localStorage' = storage
           /\ passed' = (project.id :> project) @@ passed
           /\ supabaseInstance' = client
           /\ created' = IF built THEN created + 1 ELSE created
           /\ IF IsNull(client)
              THEN /\ result' = Return(Undefined)
                   /\ isDirty' = FALSE
                   /\ UNCHANGED <<isSyncing, inflight>>
              ELSE /\ result' = NoResult
                   /\ isSyncing' = TRUE
                   /\ inflight' = inflight \cup
                         {[h |-> "handleSaveProject", project |-> project]}
                   /\ UNCHANGED isDirty
    /\ UNCHANGED <<currentProject, now, projects, currentProjectId, isLoading,
                   isEstimatingAll, isBatchEstimating, estimatingIds>>

\* lines 117-118 run where line 111 should not: the flag is cleared although
\* the save failed
handleSaveProject_rejectedClearing ==
    \E t \in inflight :
        /\ t.h = "handleSaveProject"
        /\ inflight' = inflight \ {t}
        /\ call' = [fn |-> "saveProjectToCloud", project |-> t.project]
        /\ result' = Throw("error")
        /\ isDirty' = FALSE
        /\ isSyncing' = FALSE
        /\ UNCHANGED <<currentProject, localStorage, supabaseInstance, now,
                       projects, currentProjectId, isLoading, isEstimatingAll,
                       isBatchEstimating, estimatingIds, created, passed>>

\* lines 111-112 and 116: the upsert gave no error
handleSaveProject_fulfilled ==
    \E t \in inflight :
        /\ t.h = "handleSaveProject"
        /\ inflight' = inflight \ {t}
        /\ call' = [fn |-> "saveProjectToCloud", project |-> t.project]
        /\ result' = Return(Undefined)
        /\ isDirty' = FALSE
        /\ isSyncing' = FALSE
        /\ UNCHANGED <<currentProject, localStorage, supabaseInstance, now,
                       projects, currentProjectId, isLoading, isEstimatingAll,
                       isBatchEstimating, estimatingIds, created, passed>>

\* lines 113-116: the upsert gave an error, saveProjectToCloud threw it
handleSaveProject_rejected ==
    \E t \in inflight :
        /\ t.h = "handleSaveProject"
        /\ inflight' = inflight \ {t}
        /\ call' = [fn |-> "saveProjectToCloud", project |-> t.project]
        /\ result' = Throw("error")
        /\ isSyncing' = FALSE
        /\ UNCHANGED <<currentProject, localStorage, supabaseInstance, now,
                       projects, currentProjectId, isLoading, isDirty,
                       isEstimatingAll, isBatchEstimating, estimatingIds,
                       created, passed>>

\* handleDeleteProject, lines 260-263, up to the await, the user having
\* confirmed: deleteProjectFromCloud has written the local list
handleDeleteProject ==
    /\ pageShown
    /\ Cardinality(inflight) < MaxInflight
    /\ \E i \in 1..Len(projects) :
          LET id == projects[i].id
              storage == deleteProjectFromCloud_local(localStorage, id)
              client == getSupabaseOf(storage, supabaseInstance)
              built == IsNull(supabaseInstance) /\ ~IsNull(client)
          IN  /\ built => created < MaxClients
              /\ localStorage' = storage
              /\ passed' = Without(passed, id)
              /\ supabaseInstance' = client
              /\ created' = IF built THEN created + 1 ELSE created
              /\ inflight' = inflight \cup
                    {[h |-> "handleDeleteProject", id |-> id,
                      projects |-> projects,
                      currentProjectId |-> currentProjectId]}
    /\ UNCHANGED <<call, result, currentProject, now, projects,
                   currentProjectId, isLoading, isDirty, isSyncing,
                   isEstimatingAll, isBatchEstimating, estimatingIds>>

\* lines 264-268, with the projects and currentProjectId of the render the
\* handler was started from
handleDeleteProject_resumed ==
    \E t \in inflight :
        /\ t.h = "handleDeleteProject"
        /\ inflight' = inflight \ {t}
        /\ LET updatedProjects == filterOut(t.projects, t.id)
           IN  /\ projects' = updatedProjects
               /\ currentProjectId' =
                     IF t.currentProjectId = t.id
                     THEN IF Len(updatedProjects) > 0
                          THEN updatedProjects[1].id ELSE Null
                     ELSE currentProjectId
        /\ UNCHANGED <<call, result, currentProject, localStorage,
                       supabaseInstance, now, isLoading, isDirty, isSyncing,
                       isEstimatingAll, isBatchEstimating, estimatingIds,
                       created, passed>>

\* labors.map(l => l.id === id ? { ...l, mandays: res } : l)
withMandays(labors, id, res) ==
    [i \in 1..Len(labors) |->
        IF labors[i].id = id THEN [labors[i] EXCEPT !.mandays = res]
        ELSE labors[i]]

\* handleAIEstimate, lines 177-179, up to the await
handleAIEstimate ==
    /\ pageShown
    /\ Cardinality(inflight) < MaxInflight
    /\ \E i \in 1..Len(find(projects, currentProjectId).labors) :
          LET labor == find(projects, currentProjectId).labors[i]
          IN  /\ labor.taskName # ""
              /\ inflight' = inflight \cup
                    {[h |-> "handleAIEstimate", labor |-> labor,
                      currentProject |-> find(projects, currentProjectId),
                      currentProjectId |-> currentProjectId]}
    /\ UNCHANGED <<call, result, currentProject, localStorage, supabaseInstance,
                   now, projects, currentProjectId, isLoading, isDirty,
                   isSyncing, isEstimatingAll, isBatchEstimating,
                   estimatingIds, created, passed>>

\* lines 180-183: predictTaskMandays has answered; updateProject is the one
\* of the render the handler was started from
handleAIEstimate_resumed ==
    \E t \in inflight, res \in PredictionResults :
        /\ t.h = "handleAIEstimate"
        /\ inflight' = inflight \ {t}
        /\ IF res # NullNumber
           THEN /\ ListTick
                /\ projects' =
                      updatedList(projects, t.currentProjectId, t.currentProject,
                          [labors |-> withMandays(t.currentProject.labors,
                                                  t.labor.id, res)])
                /\ isDirty' = TRUE
           ELSE UNCHANGED <<now, projects, isDirty>>
        /\ UNCHANGED <<call, result, currentProject, localStorage,
                       supabaseInstance, currentProjectId, isLoading, isSyncing,
                       isEstimatingAll, isBatchEstimating, estimatingIds,
                       created, passed>>

\* the first index from i on whose item has a task name, or Len + 1
nextNamed(labors, i) ==
    IF \E j \in i..Len(labors) : labors[j].taskName # ""
    THEN CHOOSE j \in i..Len(labors) :
            /\ labors[j].taskName # ""
            /\ \A k \in i..(j - 1) : labors[k].taskName = ""
    ELSE Len(labors) + 1

\* handleEstimateAll, lines 186-194, up to the first await; without a named
\* item it runs to its end
handleEstimateAll ==
    /\ pageShown
    /\ ~isEstimatingAll
    /\ Cardinality(inflight) < MaxInflight
    /\ LET cp == find(projects, currentProjectId)
           i == nextNamed(cp.labors, 1)
       IN  /\ Len(cp.labors) > 0
           /\ IF i <= Len(cp.labors)
              THEN /\ isEstimatingAll' = TRUE
                   /\ inflight' = inflight \cup
                         {[h |-> "handleEstimateAll", updatedLabors |-> cp.labors,
                           i |-> i, currentProject |-> cp,
                           currentProjectId |-> currentProjectId]}
                   /\ UNCHANGED <<now, projects, isDirty>>
              ELSE /\ ListTick
                   /\ projects' = updatedList(projects, currentProjectId, cp,
                                              [labors |-> cp.labors])
                   /\ isDirty' = TRUE
                   /\ UNCHANGED <<isEstimatingAll, inflight>>
    /\ UNCHANGED <<call, result, currentProject, localStorage, supabaseInstance,
                   currentProjectId, isLoading, isSyncing, isBatchEstimating,
                   estimatingIds, created, passed>>

\* lines 194-206: predictTaskMandays has answered for item i; the loop goes
\* on to the next await, or ends with updateProject of the render the
\* handler was started from
handleEstimateAll_resumed ==
    \E t \in inflight, res \in PredictionResults :
        /\ t.h = "handleEstimateAll"
        /\ LET updatedLabors ==
                  IF res # NullNumber
                  THEN [t.updatedLabors EXCEPT ![t.i] = [@ EXCEPT !.mandays = res]]
                  ELSE t.updatedLabors
               j == nextNamed(updatedLabors, t.i + 1)
           IN  IF j <= Len(updatedLabors)
               THEN /\ inflight' = (inflight \ {t}) \cup
                          {[t EXCEPT !.updatedLabors = updatedLabors, !.i = j]}
                    /\ UNCHANGED <<now, projects, isDirty, isEstimatingAll>>
               ELSE /\ ListTick
                    /\ inflight' = inflight \ {t}
                    /\ projects' =
                          updatedList(projects, t.currentProjectId,
                                      t.currentProject, [labors |-> updatedLabors])
                    /\ isDirty' = TRUE
                    /\ isEstimatingAll' = FALSE
        /\ UNCHANGED <<call, result, currentProject, localStorage,
                       supabaseInstance, currentProjectId, isLoading, isSyncing,
                       isBatchEstimating, estimatingIds, created, passed>>

InitProjects ==
    /\ call = [fn |-> "none"]
    /\ result = NoResult
    /\ currentProject = Null
    /\ localStorage = EmptyStorage
    /\ supabaseInstance = Null
    /\ now = 0
    /\ useStateInit

\* saving: the projects are made, selected, edited and saved
NextSave ==
    \/ useEffectInit
    \/ handleCreateNewProjectInList
    \/ setCurrentProjectId
    \/ ListSetLaborMandays
    \/ handleSaveProject
    \/ handleSaveProject_fulfilled
    \/ handleSaveProject_rejected

SpecSave == InitProjects /\ [][NextSave]_vars

\* the list: projects are made, selected and deleted
NextList ==
    \/ useEffectInit
    \/ handleCreateNewProjectInList
    \/ setCurrentProjectId
    \/ handleDeleteProject
    \/ handleDeleteProject_resumed

SpecList == InitProjects /\ [][NextList]_vars

\* estimation: the labor items are edited and estimated
NextEstimate ==
    \/ useEffectInit
    \/ setCurrentProjectId
    \/ ListAddLabor
    \/ ListSetLaborMandays
    \/ handleAIEstimate
    \/ handleAIEstimate_resumed
    \/ handleEstimateAll
    \/ handleEstimateAll_resumed

SpecEstimate == InitProjects /\ [][NextEstimate]_vars

(***************************************************************************)
(* The App with handleBatchAIEstimate (App.tsx lines 655-815).  Its        *)
(* updateProject saves the project it has built; its handleAIEstimate      *)
(* awaits the prediction and then the save.  The batch calls the           *)
(* handleAIEstimate of the render it was started from, once for each item  *)
(* of that render's currentProject.                                        *)
(***************************************************************************)
\* taskName.trim() on the task names of the model
trim(s) == IF s = " " THEN "" ELSE s

\* the first index from i on whose item the batch hands to handleAIEstimate
\* and handleAIEstimate does not turn away (lines 781 and 759), or Len + 1
nextBatchItem(labors, ids, i) ==
    LET taken(j) == /\ trim(labors[j].taskName) # ""
                    /\ labors[j].taskName # ""
                    /\ labors[j].id \notin ids
    IN  IF \E j \in i..Len(labors) : taken(j)
        THEN CHOOSE j \in i..Len(labors) :
                taken(j) /\ \A k \in i..(j - 1) : ~taken(k)
        ELSE Len(labors) + 1

\* lines 777-781 and 758-765, up to the first await: the prediction for the
\* first item is awaited.  predictions keeps what predictTaskMandays
\* answered for each item so far.
handleBatchAIEstimate ==
    /\ pageShown
    /\ ~isBatchEstimating
    /\ Cardinality(inflight) < MaxInflight
    /\ LET cp == find(projects, currentProjectId)
           i == nextBatchItem(cp.labors, estimatingIds, 1)
       IN  /\ Len(cp.labors) > 0
           /\ i <= Len(cp.labors)
           /\ isBatchEstimating' = TRUE
           /\ estimatingIds' = estimatingIds \cup {cp.labors[i].id}
           /\ inflight' = inflight \cup
                 {[h |-> "handleBatchAIEstimate", at |-> "predictTaskMandays",
                   i |-> i, predictions |-> EmptyStorage,
                   currentProject |-> cp,
                   currentProjectId |-> currentProjectId,
                   estimatingIds |-> estimatingIds]}
    /\ UNCHANGED <<call, result, currentProject, localStorage, supabaseInstance,
                   now, projects, currentProjectId, isLoading, isDirty,
                   isSyncing, isEstimatingAll, created, passed>>

\* lines 770-774 and 780-783 for the batch t whose item t.i is done: the
\* next item is handed to handleAIEstimate, or the batch ends
batchGoesOn(t, predictions) ==
    LET labors == t.currentProject.labors
        j == nextBatchItem(labors, t.estimatingIds, t.i + 1)
    IN  IF j <= Len(labors)
        THEN /\ estimatingIds' =
                   (estimatingIds \ {labors[t.i].id}) \cup {labors[j].id}
             /\ inflight' = (inflight \ {t}) \cup
                   {[t EXCEPT !.i = j, !.at = "predictTaskMandays",
                              !.predictions = predictions]}
             /\ UNCHANGED isBatchEstimating
        ELSE /\ estimatingIds' = estimatingIds \ {labors[t.i].id}
             /\ inflight' = inflight \ {t}
             /\ isBatchEstimating' = FALSE

\* lines 766-768 and 705-713: predictTaskMandays has answered for item
\* t.i; with a number, updateProject builds the project from the
\* currentProject of the render the batch was started from, puts it into
\* the list and awaits saveProjectToCloud
handleBatchAIEstimate_predicted ==
    \E t \in inflight, res \in PredictionResults :
        /\ t.h = "handleBatchAIEstimate"
        /\ t.at = "predictTaskMandays"
        /\ LET labor == t.currentProject.labors[t.i]
               predictions == (labor.id :> res) @@ t.predictions
               updatedProject ==
                   [lastModified |-> DateNow]
                   @@ [labors |-> withMandays(t.currentProject.labors, labor.id, res)]
                   @@ t.currentProject
           IN  IF res # NullNumber
               THEN /\ ListTick
                    /\ projects' =
                          [k \in 1..Len(projects) |->
                              IF projects[k].id = t.currentProjectId
                              THEN updatedProject ELSE projects[k]]
                    /\ isSyncing' = TRUE
                    /\ localStorage' =
                          saveProjectToCloud_local(localStorage, updatedProject)
                    /\ passed' = (updatedProject.id :> updatedProject) @@ passed
                    /\ inflight' = (inflight \ {t}) \cup
                          {[t EXCEPT !.at = "saveProjectToCloud",
                                     !.predictions = predictions]}
                    /\ UNCHANGED <<estimatingIds, isBatchEstimating>>
               ELSE /\ batchGoesOn(t, predictions)
                    /\ UNCHANGED <<now, projects, isSyncing, localStorage, passed>>
        /\ UNCHANGED <<call, result, currentProject, supabaseInstance,
                       currentProjectId, isLoading, isDirty, isEstimatingAll,
                       created>>

\* lines 712-713 and 770-774: the save is done
handleBatchAIEstimate_saved ==
    \E t \in inflight :
        /\ t.h = "handleBatchAIEstimate"
        /\ t.at = "saveProjectToCloud"
        /\ isSyncing' = FALSE
        /\ batchGoesOn(t, t.predictions)
        /\ UNCHANGED <<call, result, currentProject, localStorage,
                       supabaseInstance, now, projects, currentProjectId,
                       isLoading, isDirty, isEstimatingAll, created, passed>>

\* saveProjectToCloud throws: nothing catches it, updateProject,
\* handleAIEstimate and the batch end there
handleBatchAIEstimate_saveFailed ==
    \E t \in inflight :
        /\ t.h = "handleBatchAIEstimate"
        /\ t.at = "saveProjectToCloud"
        /\ ~IsNull(supabaseInstance)
        /\ inflight' = inflight \ {t}
        /\ UNCHANGED <<call, result, currentProject, localStorage,
                       supabaseInstance, now, projects, currentProjectId,
                       isLoading, isDirty, isSyncing, isEstimatingAll,
                       isBatchEstimating, estimatingIds, created, passed>>

NextBatch ==
    \/ useEffectInit
    \/ setCurrentProjectId
    \/ handleBatchAIEstimate
    \/ handleBatchAIEstimate_predicted
    \/ handleBatchAIEstimate_saved
    \/ handleBatchAIEstimate_saveFailed

SpecBatch == InitProjects /\ [][NextBatch]_vars

(***************************************************************************)
(* Vocabulary of the properties, stated on the text and on the tables      *)
(* without the search procedures above.                                    *)
(***************************************************************************)
Returned(fn) == call.fn = fn /\ result.kind = "return"

SameLetter(c, l) == LowerChar(c) = LowerChar(l)

WordAt(s, k, word) ==
    /\ k + Len(word) - 1 <= Len(s)
    /\ \A m \in 1..Len(word) : SameLetter(s[k + m - 1], word[m])

\* the pairs <<i, d>>: d digits start at position i of s and are followed,
\* after any number of blanks, by one of the words
NumbersBefore(s, words) ==
    UNION {{<<i, d>> : d \in {d \in 1..(Len(s) + 1 - i) :
        /\ \A j \in i..(i + d - 1) : s[j] \in Digit
        /\ \E w \in 0..(Len(s) + 1 - i - d) :
              /\ \A j \in (i + d)..(i + d + w - 1) : s[j] \in WhiteSpace
              /\ \E word \in words : WordAt(s, i + d + w, word)}} :
        i \in {i \in 1..Len(s) : s[i] \in Digit}}

RECURSIVE DecimalValue(_)
DecimalValue(ds) ==
    IF ds = <<>> THEN 0
    ELSE DecimalValue(SubSeq(ds, 1, Len(ds) - 1)) * 10 + DigitValue[ds[Len(ds)]]

\* v is the number of the leftmost occurrence, 0 when there is none
IsLeftmostNumber(v, s, words) ==
    LET occ == NumbersBefore(s, words) IN
    IF occ = {} THEN v = 0
    ELSE \A o \in occ :
            (\A p \in occ : o[1] <= p[1])
            => v = DecimalValue(SubSeq(s, o[1], o[1] + o[2] - 1))

\* does s contain word in any letter case
ContainsAnyCase(s, word) == \E k \in 1..Len(s) : WordAt(s, k, word)

\* the occurrences <<i, d>> of NumbersBefore whose digits are not preceded by
\* a digit: the occurrences a scan over s meets, each number taken whole
WholeNumbersBefore(s, words) ==
    {o \in NumbersBefore(s, words) : o[1] = 1 \/ s[o[1] - 1] \notin Digit}

StorageUnits == {<<"g">>, <<"t", "b">>}

\* the quantity of an occurrence in gigabytes: a tb unit counts 1024
GigabytesOf(s, o) ==
    DecimalValue(SubSeq(s, o[1], o[1] + o[2] - 1))
        * (IF o \in NumbersBefore(s, {<<"t", "b">>}) THEN 1024 ELSE 1)

RECURSIVE SumGigabytes(_, _)
SumGigabytes(s, occ) ==
    IF occ = {} THEN 0
    ELSE LET o == CHOOSE o \in occ : TRUE IN
         GigabytesOf(s, o) + SumGigabytes(s, occ \ {o})

StorageSum(s) == SumGigabytes(s, WholeNumbersBefore(s, StorageUnits))

StorageMarker == <<"s", "t", "o", "r", "a", "g", "e", ":">>

\* everything after the first marker, to the end of the text
AfterFirstMarker(s) ==
    LET k == CHOOSE k \in 1..Len(s) :
                 /\ WordAt(s, k, StorageMarker)
                 /\ \A j \in 1..(k - 1) : ~WordAt(s, j, StorageMarker)
    IN  SubSeq(s, k + Len(StorageMarker), Len(s))

\* the occurrences <<i, d>> of digits, blanks, GB or G, blanks, storage
FallbackNumbers(s) ==
    UNION {{<<i, d>> : d \in {d \in 1..(Len(s) + 1 - i) :
        /\ \A j \in i..(i + d - 1) : s[j] \in Digit
        /\ \E w \in 0..(Len(s) + 1 - i - d) :
              /\ \A j \in (i + d)..(i + d + w - 1) : s[j] \in WhiteSpace
              /\ \E u \in {<<"g", "b">>, <<"g">>} :
                    /\ WordAt(s, i + d + w, u)
                    /\ \E x \in 0..(Len(s) + 1 - i - d - w - Len(u)) :
                          /\ \A j \in (i + d + w + Len(u))..(i + d + w + Len(u) + x - 1) :
                                s[j] \in WhiteSpace
                          /\ WordAt(s, i + d + w + Len(u) + x, <<"s", "t", "o", "r", "a", "g", "e">>)}} :
        i \in {i \in 1..Len(s) : s[i] \in Digit}}

\* v is the number of the leftmost fallback occurrence, 0 when there is none
IsLeftmostFallback(v, s) ==
    LET occ == FallbackNumbers(s) IN
    IF occ = {} THEN v = 0
    ELSE \A o \in occ :
            (\A p \in occ : o[1] <= p[1])
            => v = DecimalValue(SubSeq(s, o[1], o[1] + o[2] - 1))

\* the mandays of a labor item, 0 when absent or not a number
MandaysOf(item) ==
    IF "mandays" \in DOMAIN item /\ item.mandays # NaN THEN item.mandays ELSE 0

\* the rate of the item's role in the table, 0 without an entry
RateOf(prices, item) ==
    IF "role" \in DOMAIN item /\ item.role \in DOMAIN prices
    THEN prices[item.role] ELSE 0

\* a fraction in lowest terms that is a whole number of thirds, and that
\* number
IsThirds(q) == q.den \in {1, 3}

InThirds(q) == q.num * (3 \div q.den)

\* the positions of the Senior Developer and Junior Developer items
DevItems(labors) ==
    {k \in 1..Len(labors) :
        /\ "role" \in DOMAIN labors[k]
        /\ labors[k].role \in {Role.SeniorDev, Role.JuniorDev}}

RECURSIVE SumMandays(_, _)
SumMandays(labors, ks) ==
    IF ks = {} THEN 0
    ELSE LET k == CHOOSE k \in ks : TRUE IN
         MandaysOf(labors[k]) + SumMandays(labors, ks \ {k})

RECURSIVE SumLaborCosts(_, _, _)
SumLaborCosts(labors, prices, ks) ==
    IF ks = {} THEN 0
    ELSE LET k == CHOOSE k \in ks : TRUE IN
         MandaysOf(labors[k]) * RateOf(prices, labors[k])
         + SumLaborCosts(labors, prices, ks \ {k})

\* the sum of the labor costs of all labor items of the project
LaborSum(project) ==
    SumLaborCosts(project.labors, project.laborPrices, 1..Len(project.labors))

RECURSIVE SumServerTotals(_, _, _)
SumServerTotals(servers, prices, ks) ==
    IF ks = {} THEN 0
    ELSE LET k == CHOOSE k \in ks : TRUE IN
         calculateItemCost(servers[k], prices).value.totalPrice
         + SumServerTotals(servers, prices, ks \ {k})

\* the sum of the totals of all servers of the project
ServerSum(project) ==
    SumServerTotals(project.servers, project.infraPrices, 1..Len(project.servers))

PriceOrZero(prices, k) == IF k \in DOMAIN prices THEN prices[k] ELSE 0

FieldOrZero(item, k) == IF k \in DOMAIN item THEN item[k] ELSE 0

\* the parsed configuration of the item of a returned calculateItemCost call
ParsedOf(item) == parseConfig(item.configRaw).value

TierOf(item) ==
    IF "storageType" \in DOMAIN item THEN item.storageType ELSE "undefined"

OsKeyOf(item) ==
    IF "os" \in DOMAIN item /\ ContainsAnyCase(item.os, <<"w", "i", "n", "d", "o", "w">>)
    THEN "osWindows" ELSE "osLinux"

\* the components of the unit price that read one price key
SimpleKeys(item) ==
    {"cpu", "ram", "bandwidthQt", "bandwidthInternal", OsKeyOf(item)}

QuantityOf(item, config, k) ==
    CASE k = "cpu" -> config.cpu
      [] k = "ram" -> config.ram
      [] k = "bandwidthQt" -> FieldOrZero(item, "bwQt")
      [] k = "bandwidthInternal" -> FieldOrZero(item, "bwInternal")
      [] OTHER -> 1

\* the sum of quantity * price over the keys, an absent price counting 0
RECURSIVE SumOver(_, _, _, _)
SumOver(keys, item, config, prices) ==
    IF keys = {} THEN 0
    ELSE LET k == CHOOSE x \in keys : TRUE IN
         QuantityOf(item, config, k) * PriceOrZero(prices, k)
         + SumOver(keys \ {k}, item, config, prices)

PricedCall == Returned("calculateItemCost") /\ ~IsNull(call.prices)

\* constants.ts INITIAL_SERVERS[0], the worked example of the specification
ExampleItem ==
    [configRaw |-> SampleConfig, os |-> <<"U", "b", "u", "n", "t", "u", " ", "L", "i", "n", "u", "x", " ", "(", "6", "4", " ", "b", "i", "t", ")">>,
     quantity |-> 1, storageType |-> "diskSanAllFlash", bwQt |-> 0,
     bwInternal |-> 0]

(***************************************************************************)
(* Properties                                                              *)
(***************************************************************************)
\* C1: calculateItemCost never raises, whatever is missing from the item or
\* from the price table.
C1_NeverRaises ==
    call.fn = "calculateItemCost" => result.kind # "throw"

\* C2: parseConfig returns for every string, with the three fields cpu, ram
\* and storage populated, each being 0 when the text has no number followed
\* by the field's words.
C2_ParseConfigTotal ==
    call.fn = "parseConfig" /\ result # NoResult =>
        /\ result.kind = "return"
        /\ DOMAIN result.value = {"cpu", "ram", "storage"}
        /\ \A f \in DOMAIN result.value : result.value[f] \in Nat
        /\ NumbersBefore(call.raw, {<<"c", "o", "r", "e">>, <<"c", "p", "u">>}) = {}
              => result.value.cpu = 0
        /\ NumbersBefore(call.raw, {<<"g", "b">>}) = {} => result.value.ram = 0
        /\ NumbersBefore(call.raw, {<<"g">>, <<"t", "b">>}) = {}
              => result.value.storage = 0

C2_Witness ==
    /\ call.fn = "parseConfig"
    /\ call.raw = <<"n", "o", " ", "n", "u", "m", "b", "e", "r", "s", " ", "h", "e", "r", "e">>
    /\ result = Return([cpu |-> 0, ram |-> 0, storage |-> 0])

\* C3: unitPrice is cpu*prices.cpu + ram*prices.ram + storage*storage unit
\* price + OS price + bwQt*prices.bandwidthQt + bwInternal*
\* prices.bandwidthInternal, an absent price or quantity counting 0; the
\* example item at the initial prices costs 3179400.
C3_UnitPriceFormula ==
    PricedCall =>
        LET config == ParsedOf(call.item) IN
        /\ result.value.unitPrice =
              config.cpu * PriceOrZero(call.prices, "cpu")
              + config.ram * PriceOrZero(call.prices, "ram")
              + config.storage * storagePriceUnit(call.item, call.prices)
              + PriceOrZero(call.prices, OsKeyOf(call.item))
              + FieldOrZero(call.item, "bwQt")
                   * PriceOrZero(call.prices, "bandwidthQt")
              + FieldOrZero(call.item, "bwInternal")
                   * PriceOrZero(call.prices, "bandwidthInternal")
        /\ call.item = ExampleItem /\ call.prices = INITIAL_UNIT_PRICES
              => result.value.unitPrice = 3179400

C3_Witness ==
    /\ PricedCall
    /\ call.item = ExampleItem
    /\ call.prices = INITIAL_UNIT_PRICES
    /\ ParsedOf(call.item) = [cpu |-> 8, ram |-> 16, storage |-> 100]
    /\ result.value.unitPrice = 3179400

\* C4: totalPrice is unitPrice times the quantity, the quantity counting 1
\* when it is missing, zero or negative.
C4_TotalPrice ==
    Returned("calculateItemCost") =>
        result.value.totalPrice =
            result.value.unitPrice
            * (IF "quantity" \in DOMAIN call.item /\ call.item.quantity > 0
               THEN call.item.quantity ELSE 1)

\* C5: the storage unit price is the price of the item's tier whenever the
\* table has that key, whatever the price, 0 included; it is
\* prices.diskSanAllFlash only when the tier key is absent, and 0 when both
\* are absent.
C5_StorageUnitPrice ==
    PricedCall =>
        LET config == ParsedOf(call.item) IN
        result.value.unitPrice =
            SumOver(SimpleKeys(call.item), call.item, config, call.prices)
            + config.storage
              * (IF TierOf(call.item) \in DOMAIN call.prices
                 THEN call.prices[TierOf(call.item)]
                 ELSE PriceOrZero(call.prices, "diskSanAllFlash"))

\* C6: with an absent price table the result is {unitPrice: 0, totalPrice: 0}
\* for every item, and nothing is raised.
C6_AbsentTable ==
    call.fn = "calculateItemCost" /\ IsNull(call.prices) /\ result # NoResult
        => result = Return([unitPrice |-> 0, totalPrice |-> 0])

C6_Witness ==
    /\ Returned("calculateItemCost")
    /\ IsNull(call.prices)
    /\ "configRaw" \notin DOMAIN call.item
    /\ result.value = [unitPrice |-> 0, totalPrice |-> 0]

\* C7: a price key that is absent from the table contributes 0 to unitPrice
\* and leaves the other components as they are: unitPrice is the sum of the
\* components whose key is present, and the storage component is 0 when
\* neither the item's tier nor diskSanAllFlash is in the table.
C7_AbsentKeyIsZero ==
    PricedCall =>
        LET config == ParsedOf(call.item)
            keys == SimpleKeys(call.item)
        IN
        /\ \A k \in keys \ DOMAIN call.prices :
              result.value.unitPrice =
                  SumOver(keys \ {k}, call.item, config, call.prices)
                  + config.storage * storagePriceUnit(call.item, call.prices)
        /\ {TierOf(call.item), "diskSanAllFlash"} \cap DOMAIN call.prices = {}
              => result.value.unitPrice =
                    SumOver(keys, call.item, config, call.prices)

C7_Witness ==
    /\ PricedCall
    /\ {TierOf(call.item), "diskSanAllFlash"} \cap DOMAIN call.prices = {}
    /\ {"cpu", "ram"} \subseteq DOMAIN call.prices
    /\ ParsedOf(call.item) = [cpu |-> 8, ram |-> 16, storage |-> 100]
    /\ result.value.unitPrice =
          8 * call.prices.cpu + 16 * call.prices.ram
          + SumOver(SimpleKeys(call.item) \ {"cpu", "ram"}, call.item,
                    ParsedOf(call.item), call.prices)

\* C8: the OS component of unitPrice is prices.osWindows exactly when
\* item.os contains "window" in any letter case, and prices.osLinux for every
\* other or missing OS text; the price counts 0 when absent from the table.
C8_OsComponent ==
    PricedCall =>
        LET config == ParsedOf(call.item) IN
        result.value.unitPrice
        - SumOver(SimpleKeys(call.item) \ {"osWindows", "osLinux"},
                  call.item, config, call.prices)
        - config.storage * storagePriceUnit(call.item, call.prices)
        = IF "os" \in DOMAIN call.item
             /\ ContainsAnyCase(call.item.os, <<"w", "i", "n", "d", "o", "w">>)
          THEN PriceOrZero(call.prices, "osWindows")
          ELSE PriceOrZero(call.prices, "osLinux")

C8_Witness ==
    /\ PricedCall
    /\ call.item.configRaw = SampleConfig
    /\ "os" \in DOMAIN call.item
    /\ call.item.os = <<"W", "I", "N", "D", "O", "W">>
    /\ call.prices = EditedPrices
    /\ result.value.unitPrice =
          SumOver({"cpu", "ram", "bandwidthQt", "bandwidthInternal"},
                  call.item, ParsedOf(call.item), call.prices)
          + 100 * storagePriceUnit(call.item, call.prices)
          + call.prices.osWindows

\* C9: cpu is the number of the leftmost occurrence of digits, optional
\* blanks, then core or CPU in any letter case; later occurrences are
\* ignored and cpu is 0 when there is none.
C9_CpuLeftmost ==
    Returned("parseConfig") =>
        IsLeftmostNumber(result.value.cpu, call.raw, {<<"c", "o", "r", "e">>, <<"c", "p", "u">>})

C9_Witness ==
    /\ Returned("parseConfig")
    /\ call.raw = <<"2", "C", "o", "R", "e", "1", " ", "c", "p", "u">>
    /\ result.value.cpu = 2

\* C10: ram is the number of the leftmost occurrence anywhere in the text of
\* digits, optional blanks, then GB in any letter case, labelled as RAM or
\* not; later occurrences are ignored and ram is 0 when there is none.
C10_RamLeftmost ==
    Returned("parseConfig") =>
        IsLeftmostNumber(result.value.ram, call.raw, {<<"g", "b">>})

C10_Witness ==
    /\ Returned("parseConfig")
    /\ call.raw = <<"s", "t", "o", "r", "a", "g", "e", ":", " ", "1", "0", "0", "G", "B", " ", "1", "T", "B">>
    /\ result.value = [cpu |-> 0, ram |-> 100, storage |-> 1124]
\* C11: when the scanned text holds a number with a unit gb, g or tb, storage
\* is the sum over all such occurrences, a tb quantity counted 1024 times.
C11_StorageSum ==
    Returned("parseConfig") =>
        LET part == storagePart(call.raw) IN
        WholeNumbersBefore(part, StorageUnits) # {}
            => result.value.storage = StorageSum(part)

C11_Witness ==
    /\ Returned("parseConfig")
    /\ call.raw = <<"S", "t", "o", "r", "a", "g", "e", ":", "7", " ", "g", "5", "T", "b">>
    /\ Cardinality(WholeNumbersBefore(storagePart(call.raw), StorageUnits)) = 2
    /\ result.value.storage = 5127

\* C12: when the marker is present, the scanned text is everything after the
\* first marker to the end of the text, quantities after a second marker
\* included.
C12_ScanToEnd ==
    (Returned("parseConfig") /\ ContainsAnyCase(call.raw, StorageMarker)) =>
        LET rest == AfterFirstMarker(call.raw) IN
        WholeNumbersBefore(rest, StorageUnits) # {}
            => result.value.storage = StorageSum(rest)

\* C13: without a marker, storage is the number of the leftmost occurrence of
\* digits, blanks, GB or G, blanks, storage, and 0 when there is none.
C13_FallbackWithoutMarker ==
    (Returned("parseConfig") /\ ~ContainsAnyCase(call.raw, StorageMarker)) =>
        IsLeftmostFallback(result.value.storage, call.raw)

C13_Witness ==
    /\ Returned("parseConfig")
    /\ call.raw = <<"C", "P", "U", ":", " ", "2", " ", "c", "o", "r", "e", ";", " ", "R", "A", "M", " ", "4", "G", "B", ";", " ", "2", "0", "0", "G", "B", " ", "s", "t", "o", "r", "a", "g", "e">>
    /\ ~ContainsAnyCase(call.raw, StorageMarker)
    /\ result.value.storage = 200

\* C14 as stated: a marker with no number and unit after it gives storage 0,
\* whatever the rest of the text holds.
C14_MarkerDisablesFallback ==
    (Returned("parseConfig") /\ ContainsAnyCase(call.raw, StorageMarker)) =>
        (WholeNumbersBefore(AfterFirstMarker(call.raw), StorageUnits) = {}
            => result.value.storage = 0)

\* C14: the fallback search decides storage whenever the scanned text holds no
\* number with a unit, with the marker present or not.
C14_FallbackWhenScanEmpty ==
    Returned("parseConfig") =>
        (WholeNumbersBefore(storagePart(call.raw), StorageUnits) = {}
            => IsLeftmostFallback(result.value.storage, call.raw))

C14_Witness ==
    /\ Returned("parseConfig")
    /\ call.raw = <<"7", " ", "g", " ", "s", "t", "o", "r", "a", "g", "e", "S", "t", "o", "r", "a", "g", "e", ":">>
    /\ ContainsAnyCase(call.raw, StorageMarker)
    /\ result.value.storage = 7

\* C15: calculateLaborCost never raises; it returns 0 when the item or the
\* table is absent, and otherwise mandays times the rate of the role, the
\* rate 0 for a role without an entry, mandays 0 when absent or NaN.
C15_LaborCost ==
    (call.fn = "calculateLaborCost" /\ result # NoResult) =>
        /\ result.kind = "return"
        /\ result.value =
              IF IsNull(call.item) \/ IsNull(call.prices) THEN 0
              ELSE MandaysOf(call.item) * RateOf(call.prices, call.item)

C15_Witness ==
    /\ Returned("calculateLaborCost")
    /\ call.item = [role |-> Role.SeniorDev, mandays |-> 3]
    /\ call.prices = INITIAL_LABOR_PRICES
    /\ result.value = 6600000

\* C16: devTotal is the sum of the mandays of exactly the Senior Developer
\* and Junior Developer items, and the PM, BA and Tester mandays are each a
\* third of it, so that the three sum to devTotal.
C16_AutoStaffing ==
    ~IsNull(currentProject) =>
        LET st == autoLaborStats
            labors == currentProject.labors
        IN  /\ st.devTotal = SumMandays(labors, DevItems(labors))
            /\ \A m \in {st.pm, st.ba, st.tester} :
                  IsThirds(m) /\ InThirds(m) = st.devTotal
            /\ InThirds(st.pm) + InThirds(st.ba) + InThirds(st.tester)
               = 3 * st.devTotal

C16_Witness ==
    /\ ~IsNull(currentProject)
    /\ Len(currentProject.labors) = 2
    /\ \E k \in 1..2 : currentProject.labors[k].role = Role.JuniorDev
    /\ \E k \in 1..2 : currentProject.labors[k].role = Role.SeniorDev
    /\ autoLaborStats =
          [devTotal |-> 9, pm |-> Rat(3), ba |-> Rat(3), tester |-> Rat(3)]

\* C17: the automatic staffing cost is the PM mandays at the Project Manager
\* rate plus the BA mandays at the Business Analyst rate plus the Tester
\* mandays at the Tester rate, a rate being 0 for a role without an entry.
C17_AutoStaffingCost ==
    ~IsNull(currentProject) =>
        LET st == autoLaborStats
            lp == currentProject.laborPrices
            total == autoLaborTotal
        IN  /\ IsThirds(total)
            /\ InThirds(total) =
                  InThirds(st.pm) * PriceOrZero(lp, Role.PM)
                  + InThirds(st.ba) * PriceOrZero(lp, Role.BA)
                  + InThirds(st.tester) * PriceOrZero(lp, Role.Tester)

C17_Witness ==
    /\ ~IsNull(currentProject)
    /\ Role.PM \notin DOMAIN currentProject.laborPrices
    /\ Role.Tester \notin DOMAIN currentProject.laborPrices
    /\ autoLaborStats.devTotal = 5
    /\ autoLaborTotal = [num |-> 10000000, den |-> 3]

\* C18: after any sequence of edits, the grand total is the sum of the server
\* totals, plus the sum of the labor costs of all labor items, manual PM, BA
\* and Tester items included, plus the whole automatic staffing cost.
C18_GrandTotal ==
    ~IsNull(currentProject) =>
        LET auto == autoLaborTotal
            total == grandTotal
            manual == ServerSum(currentProject) + LaborSum(currentProject)
        IN  /\ IsThirds(total)
            /\ InThirds(total) = 3 * manual + InThirds(auto)

C18_Witness ==
    /\ ~IsNull(currentProject)
    /\ currentProject.servers = INITIAL_SERVERS
    /\ currentProject.labors = [INITIAL_LABOR_ITEMS EXCEPT ![1].mandays = 4]
    /\ currentProject.labors[1].role \in StaffRoles
    /\ currentProject.infraPrices = INITIAL_UNIT_PRICES
    /\ currentProject.laborPrices = INITIAL_LABOR_PRICES
    /\ autoLaborTotal = [num |-> 27500000, den |-> 3]
    /\ grandTotal = [num |-> 95238200, den |-> 3]

\* C20: a call to parseConfig, calculateItemCost or calculateLaborCost leaves
\* its arguments, the current project, the local store and the cached cloud
\* client as they were.
C20_CallsChangeNothing ==
    [][/\ call' = call
       /\ currentProject' = currentProject
       /\ localStorage' = localStorage
       /\ supabaseInstance' = supabaseInstance]_vars

C20_Witness ==
    /\ Returned("calculateItemCost")
    /\ "quantity" \notin DOMAIN call.item
    /\ ~IsNull(currentProject)
    /\ PROJECTS_KEY \in DOMAIN localStorage
    /\ CLOUD_CONFIG_KEY \in DOMAIN localStorage
    /\ ~IsNull(supabaseInstance)

C28_RoleRoundTrip ==
    (Returned("mapStringToRole") /\ \E r \in Roles : call.str = RoleText[r])
        => RoleText[result.value] = call.str

\* C30: on every input the copies in part_003 and part_004 have the outcome
\* of the functions of utils.ts: the same value, or an exception in all.
C30_CopiesAgree ==
    result.kind = "outcomes" =>
        /\ result.part_003 = result.utils
        /\ result.part_004 = result.utils

\* C25: the local store never holds two projects with one id, and it holds
\* a project exactly for the ids saved and not deleted since, each as the
\* text of the version saved last.
C25_LocalStoreLatest ==
    LET stored == loadProjectsFromLocalOf(localStorage) IN
    /\ \A i, j \in 1..Len(stored) : stored[i].id = stored[j].id => i = j
    /\ {stored[i].id : i \in 1..Len(stored)} = DOMAIN passed
    /\ \A i \in 1..Len(stored) :
          stored[i] = stringifyProject(passed[stored[i].id])

C25_Witness ==
    LET stored == loadProjectsFromLocalOf(localStorage) IN
    /\ Len(stored) = 1
    /\ stored[1].id = ProjectId(2)
    /\ stored[1].labors # <<>>
    /\ Cardinality(inflight) = 2
    /\ \E t \in inflight : t.h = "deleteProjectFromCloud" /\ t.id = ProjectId(1)
    /\ \E t \in inflight : t.h = "saveProjectToCloud" /\ t.project.labors = <<>>

\* C26: when handleSaveProject starts to wait for the upsert, the local
\* store already holds the version being saved; when the upsert fails, the
\* call of saveProjectToCloud throws, the local store is left as it is and
\* isDirty keeps its value, so a set flag stays set.
C26_FailedSaveKeepsDirty ==
    [][/\ \A t \in inflight' \ inflight :
             t.h = "handleSaveProject" =>
                 find(loadProjectsFromLocalOf(localStorage'), t.project.id)
                     = stringifyProject(t.project)
       /\ ((\E t \in inflight \ inflight' : t.h = "handleSaveProject")
              /\ result'.kind = "throw") =>
             /\ call' = [fn |-> "saveProjectToCloud",
                         project |-> (CHOOSE t \in inflight \ inflight' : TRUE).project]
             /\ localStorage' = localStorage
             /\ isDirty' = isDirty]_vars

C26_Witness ==
    /\ call.fn = "saveProjectToCloud"
    /\ result.kind = "throw"
    /\ isDirty
    /\ ~isSyncing
    /\ inflight = {}
    /\ find(projects, call.project.id) = call.project
    /\ find(loadProjectsFromLocalOf(localStorage), call.project.id)
          = stringifyProject(call.project)

\* C22: whenever isDirty is false and no save awaits the cloud, every
\* project of the list is the version last handed to saveProjectToCloud.
C22_CleanMeansSaved ==
    (/\ ~isDirty
     /\ ~isSyncing
     /\ \A t \in inflight : t.h # "handleSaveProject") =>
        \A i \in 1..Len(projects) :
            /\ projects[i].id \in DOMAIN passed
            /\ passed[projects[i].id] = projects[i]

\* C23: when handleAIEstimate or handleEstimateAll ends, the list holds
\* what it held just before, the user's changes made meanwhile included,
\* but for lastModified and the mandays of items the handler estimated:
\* the item handed to handleAIEstimate, the items with a task name of the
\* project handleEstimateAll was started on.
C23_EstimateKeepsEdits ==
    [][\A t \in inflight \ inflight' :
          t.h \in {"handleAIEstimate", "handleEstimateAll"} =>
              /\ Len(projects') = Len(projects)
              /\ \A k \in 1..Len(projects) :
                    LET p == projects[k]
                        q == projects'[k]
                    IN  /\ q.id = p.id
                        /\ q.servers = p.servers
                        /\ q.infraPrices = p.infraPrices
                        /\ q.laborPrices = p.laborPrices
                        /\ Len(q.labors) = Len(p.labors)
                        /\ \A i \in 1..Len(p.labors) :
                              LET l == p.labors[i]
                                  m == q.labors[i]
                              IN  /\ m.id = l.id
                                  /\ m.taskName = l.taskName
                                  /\ m.role = l.role
                                  /\ m.mandays # l.mandays =>
                                        /\ p.id = t.currentProjectId
                                        /\ IF t.h = "handleAIEstimate"
                                           THEN l.id = t.labor.id
                                           ELSE l.taskName # ""]_vars

\* C24: once the list is loaded, currentProjectId is null or the id of a
\* project of the list, and null only when the list is empty; and a
\* project leaves the list only in the step that ends its own deletion.
C24_CurrentProjectInList ==
    [][~isLoading' =>
          /\ IF IsNull(currentProjectId')
             THEN projects' = <<>>
             ELSE \E i \in 1..Len(projects') : projects'[i].id = currentProjectId'
          /\ \A i \in 1..Len(projects) :
                (\A j \in 1..Len(projects') : projects'[j].id # projects[i].id) =>
                    \E t \in inflight \ inflight' :
                        /\ t.h = "handleDeleteProject"
                        /\ t.id = projects[i].id]_vars

\* the items of a list
Range(seq) == {seq[i] : i \in 1..Len(seq)}

\* C27: when a batch ends after predictTaskMandays has answered with a
\* number for every item with a task name, each of these items has, in the
\* project of the list, the mandays predicted for it.
C27_BatchKeepsPredictions ==
    [][\A t \in inflight \ inflight' :
          (/\ t.h = "handleBatchAIEstimate"
           /\ isBatchEstimating /\ ~isBatchEstimating'
           /\ \A l \in Range(t.currentProject.labors) :
                 trim(l.taskName) # "" =>
                     /\ l.id \in DOMAIN t.predictions
                     /\ t.predictions[l.id] # NullNumber) =>
              \A l \in Range(find(projects', t.currentProjectId).labors) :
                  trim(l.taskName) # "" => l.mandays = t.predictions[l.id]]_vars

\* C29: once a configuration has been saved, getCloudConfig returns it and
\* the client getSupabase builds after a reset is made from it; while an
\* instance is held, getSupabase returns that instance.
C29_SavedConfigIsUsed ==
    [][LET saved == parseConfigText(localStorage[CLOUD_CONFIG_KEY])
           isSaved == CLOUD_CONFIG_KEY \in DOMAIN localStorage
       IN  /\ (CallGetCloudConfig /\ isSaved) => result'.value = saved
           /\ (CallGetSupabase /\ isSaved /\ IsNull(supabaseInstance)) =>
                 /\ supabaseInstance'.url = saved.url
                 /\ supabaseInstance'.key = saved.key
           /\ (CallGetSupabase /\ ~IsNull(supabaseInstance)) =>
                 result'.value = supabaseInstance]_vars



====
